---- MODULE Spec2Model ----
(***************************************************************************)
(* Coverage indicators of the DSEI analysis scripts: column discovery by   *)
(* substring, group-and-sum aggregation, coverage ratios, gap join and     *)
(* top/bottom selection, as the six scripts under src/ compute them.       *)
(*                                                                         *)
(* Text is a sequence of characters; a character is a one-token string.    *)
(* Non-ASCII characters are written with ASCII tokens:                     *)
(*   "a~" = a with tilde, "A~" = A with tilde, "o^" = masculine ordinal    *)
(*   (as in "No" of the headers), ">=" = the greater-or-equal sign.        *)
(* Numbers produced by a division are exact extended rationals: floating   *)
(* point rounding is not modelled, NaN and the infinities are.             *)
(***************************************************************************)
EXTENDS Integers, Sequences, FiniteSets, TLC

(***************************************************************************)
(* Bounds of the model.                                                    *)
(***************************************************************************)
MaxRows == 2
MaxCols == 3
NDistricts == 10

(***************************************************************************)
(* Program constants.                                                      *)
(***************************************************************************)
TopN == 5
Pct == 100
Ano2022 == 2022
Ano2023 == 2023
Top10 == 10
TopGaps == 3

(***************************************************************************)
(* Characters and strings.                                                 *)
(***************************************************************************)
UpperAZ ==
  <<"A", "B", "C", "D", "E", "F", "G", "H", "I", "J", "K", "L", "M", "N",
    "O", "P", "Q", "R", "S", "T", "U", "V", "W", "X", "Y", "Z">>

LowerAZ ==
  <<"a", "b", "c", "d", "e", "f", "g", "h", "i", "j", "k", "l", "m", "n",
    "o", "p", "q", "r", "s", "t", "u", "v", "w", "x", "y", "z">>

UpperCase == UpperAZ \o <<"A~">>

LowerCase == LowerAZ \o <<"a~">>

\* the characters in code point order (the order Python compares strings by)
\* "\n" is a line break inside a header cell, "nbsp" the no-break space
CodeOrder ==
  <<"\n", " ", "6">> \o UpperAZ \o <<"_">> \o LowerAZ \o <<"nbsp", "o^", "A~", "a~", ">=">>

Chars == {CodeOrder[i] : i \in 1..Len(CodeOrder)}

CodeTable == [c \in Chars |-> CHOOSE i \in 1..Len(CodeOrder) : CodeOrder[i] = c]

Code(c) == CodeTable[c]

\* a < b for two strings
StrLt(a, b) ==
  \E k \in 1..(Len(a) + 1) :
    /\ k <= Len(b)
    /\ \A j \in 1..(k - 1) : a[j] = b[j]
    /\ (k = Len(a) + 1 \/ Code(a[k]) < Code(b[k]))

\* str.lower() on one character
LowerTable ==
  [c \in Chars |->
    IF \E i \in 1..Len(UpperCase) : UpperCase[i] = c
    THEN LowerCase[CHOOSE i \in 1..Len(UpperCase) : UpperCase[i] = c]
    ELSE c]

LowerChar(c) == LowerTable[c]

\* str.lower()
Lower(s) == [i \in 1..Len(s) |-> LowerChar(s[i])]

\* the characters str.strip() removes: every Unicode whitespace
IsSpace(c) == c \in {" ", "\n", "nbsp"}

\* str.strip(): drops leading and trailing whitespace
RECURSIVE LStrip(_)
LStrip(s) ==
  IF s # <<>> /\ IsSpace(Head(s)) THEN LStrip(Tail(s)) ELSE s

RECURSIVE RStrip(_)
RStrip(s) ==
  IF s # <<>> /\ IsSpace(s[Len(s)]) THEN RStrip(SubSeq(s, 1, Len(s) - 1)) ELSE s

Strip(s) == RStrip(LStrip(s))

\* str.replace(' ', '_')
ReplaceSpace(s) == [i \in 1..Len(s) |-> IF s[i] = " " THEN "_" ELSE s[i]]

\* the encoding that lets the symbols without decomposition through
AsciiOfCharKeeping(c) ==
  CASE c = "a~" -> <<"a">>
    [] c = "nbsp" -> <<" ">>
    [] c = "A~" -> <<"A">>
    [] c = "o^" -> <<"o">>
    [] OTHER -> <<c>>

\* One character through normalize('NFKD').encode('ascii', errors='ignore'):
\* a letter with a diacritic decomposes to its base letter and a combining
\* mark (dropped), the ordinal indicator to "o"; a symbol with no ASCII
\* decomposition is dropped; the no-break space decomposes to a space.
AsciiOfChar(c) ==
  CASE c = "a~" -> <<"a">>
    [] c = "nbsp" -> <<" ">>
    [] c = "A~" -> <<"A">>
    [] c = "o^" -> <<"o">>
    [] c = ">=" -> <<>>
    [] OTHER -> <<c>>

RECURSIVE NfkdAscii(_)
NfkdAscii(s) ==
  IF s = <<>> THEN <<>> ELSE AsciiOfChar(Head(s)) \o NfkdAscii(Tail(s))

\* Python's `sub in s`
Contains(sub, s) ==
  \E i \in 0..(Len(s) - Len(sub)) : \A k \in 1..Len(sub) : s[i + k] = sub[k]

(***************************************************************************)
(* The strings of the sources.                                             *)
(***************************************************************************)
s_dsei == <<"d", "s", "e", "i">>
s_dsei_gestao == <<"d", "s", "e", "i", "_", "g", "e", "s", "t", "a", "o">>
s_gestante == <<"g", "e", "s", "t", "a", "n", "t", "e">>
s_n_gestantes == <<"n", "o^", " ", "g", "e", "s", "t", "a", "n", "t", "e", "s">>
s_6_ou_mais_sp == <<"6", " ", "o", "u", " ", "m", "a", "i", "s">>
s_6_ou_mais == <<"6", "_", "o", "u", "_", "m", "a", "i", "s">>
s_ge6 == <<">=", "6">>
s_ultrassom == <<"u", "l", "t", "r", "a", "s", "s", "o", "m">>
s_acesso_ao_exame == <<"a", "c", "e", "s", "s", "o", " ", "a", "o", " ", "e", "x", "a", "m", "e">>
s_distrito == <<"d", "i", "s", "t", "r", "i", "t", "o">>
s_acesso == <<"a", "c", "e", "s", "s", "o">>
s_ultrassonografia == <<"u", "l", "t", "r", "a", "s", "s", "o", "n", "o", "g", "r", "a", "f", "i", "a">>
s_ano == <<"a", "n", "o">>
s_gestantes == <<"g", "e", "s", "t", "a", "n", "t", "e", "s">>
s_ultrassons == <<"u", "l", "t", "r", "a", "s", "s", "o", "n", "s">>
s_com_acesso == <<"c", "o", "m", " ", "a", "c", "e", "s", "s", "o", " ", "a", "o", " ", "e", "x", "a", "m", "e", " ", "d", "e", " ", "u", "l", "t", "r", "a", "s", "s", "o", "m">>
s_DSEI_GESTAO == <<"D", "S", "E", "I", "_", "G", "E", "S", "T", "A", "O">>
s_N_GESTANTES == <<"N", "o^", " ", "G", "E", "S", "T", "A", "N", "T", "E", "S">>
s_6_OU_MAIS_CONSULTAS == <<"6", " ", "O", "U", " ", "M", "A", "I", "S", " ", "C", "O", "N", "S", "U", "L", "T", "A", "S">>
s_COM_ACESSO == <<"C", "O", "M", " ", "A", "C", "E", "S", "S", "O", " ", "A", "O", " ", "E", "X", "A", "M", "E", " ", "D", "E", " ", "U", "L", "T", "R", "A", "S", "S", "O", "M">>

(***************************************************************************)
(* Column resolution.                                                      *)
(***************************************************************************)
\* the None that find_column returns
None == <<"None">>

\* [col for col in df.columns if pattern.lower() in str(col).lower()]
matching_cols(cols, pattern) ==
  LET p == Lower(pattern)
  IN SelectSeq(cols, LAMBDA col : Contains(p, Lower(col)))

\* find_column with its loops exchanged: the first column, in column
\* order, that contains any of the patterns
find_column_by_column(cols, patterns) ==
  LET hit(col) == \E i \in 1..Len(patterns) : Contains(Lower(patterns[i]), Lower(col))
      hits == SelectSeq(cols, hit)
  IN IF hits # <<>> THEN hits[1] ELSE None

RECURSIVE find_column(_, _)
find_column(cols, patterns) ==
  IF patterns = <<>> THEN None
  ELSE LET matching == matching_cols(cols, Head(patterns))
       IN IF matching # <<>> THEN matching[1] ELSE find_column(cols, Tail(patterns))

\* the candidate lists process_prenatal_data and process_ultrassom_data pass
PatDsei == <<s_dsei, s_dsei_gestao>>
PatGestantes == <<s_gestante, s_n_gestantes>>
PatConsultas == <<s_6_ou_mais_sp, s_6_ou_mais, s_ge6>>
PatUltrassom == <<s_ultrassom, s_acesso_ao_exame>>

\* clean_column_names of analise_gap_tecnologico.py, on one column name
clean_column_name_gap(name) ==
  NfkdAscii(ReplaceSpace(Lower(Strip(name))))

\* clean_column_names of graficos_cobertura_prenatal.py, on one column name
clean_column_name_graficos(name) ==
  NfkdAscii(ReplaceSpace(Lower(name)))

(***************************************************************************)
(* Floating point values as exact extended rationals [n, d]:               *)
(* d > 0 is the number n/d in lowest terms, d = 0 is NaN (n = 0), +inf     *)
(* (n = 1) or -inf (n = -1).                                               *)
(***************************************************************************)
Abs(x) == IF x < 0 THEN -x ELSE x

Sign(x) == IF x < 0 THEN -1 ELSE IF x > 0 THEN 1 ELSE 0

RECURSIVE GCD(_, _)
GCD(a, b) == IF b = 0 THEN a ELSE GCD(b, a % b)

NaN == [n |-> 0, d |-> 0]

Inf == [n |-> 1, d |-> 0]

IsNaN(x) == x.d = 0 /\ x.n = 0

IsInf(x) == x.d = 0 /\ x.n # 0

IsFinite(x) == x.d > 0

\* the division with its quotient clipped to 1
RatioClipped(n, d) ==
  IF d = 0 THEN [n |-> Sign(n), d |-> 0]
  ELSE IF Sign(d) * n > Abs(d) THEN [n |-> 1, d |-> 1]
  ELSE LET g == GCD(Abs(n), Abs(d))
       IN [n |-> (Sign(d) * n) \div g, d |-> Abs(d) \div g]

\* the float n/d: numpy's true division, x/0 = +-inf, 0/0 = NaN
Ratio(n, d) ==
  IF d = 0 THEN [n |-> Sign(n), d |-> 0]
  ELSE LET g == GCD(Abs(n), Abs(d))
       IN [n |-> (Sign(d) * n) \div g, d |-> Abs(d) \div g]

FromInt(i) == [n |-> i, d |-> 1]

FSub(x, y) ==
  IF IsNaN(x) \/ IsNaN(y) THEN NaN
  ELSE IF IsInf(x) /\ IsInf(y) THEN (IF x.n = y.n THEN NaN ELSE x)
  ELSE IF IsInf(x) THEN x
  ELSE IF IsInf(y) THEN [n |-> -y.n, d |-> 0]
  ELSE Ratio(x.n * y.d - y.n * x.d, x.d * y.d)

FAdd(x, y) == FSub(x, [n |-> -y.n, d |-> y.d])

\* x * k for an integer k > 0
FMulInt(x, k) == IF x.d = 0 THEN x ELSE Ratio(x.n * k, x.d)

\* x / k for an integer k > 0
FDivInt(x, k) == IF x.d = 0 THEN x ELSE Ratio(x.n, x.d * k)

\* x / y on floats, the divisor being no negative zero: x/0 = +-inf,
\* 0/0 = inf/inf = NaN, x/inf = 0
FDiv(x, y) ==
  IF IsNaN(x) \/ IsNaN(y) THEN NaN
  ELSE IF IsInf(y) THEN (IF IsInf(x) THEN NaN ELSE FromInt(0))
  ELSE IF y.n = 0 THEN [n |-> Sign(x.n), d |-> 0]
  ELSE IF IsInf(x) THEN [n |-> x.n * Sign(y.n), d |-> 0]
  ELSE Ratio(x.n * y.d, x.d * y.n)

\* x < y on floats: every comparison with NaN is false
FLt(x, y) ==
  /\ ~IsNaN(x)
  /\ ~IsNaN(y)
  /\ IF x.d = 0 /\ y.d = 0 THEN x.n < y.n ELSE x.n * y.d < y.n * x.d

\* Series.fillna(0)
fillna0(x) == IF IsNaN(x) THEN FromInt(0) ELSE x

(***************************************************************************)
(* DataFrames: [cols, rows], a row being one cell per column.  A cell is   *)
(* a string [s |-> ...], an integer [i |-> ...] or the missing value.      *)
(***************************************************************************)
NaNCell == [nan |-> TRUE]

StrCell(s) == [s |-> s]

IntCell(i) == [i |-> i]

IsNull(c) == c = NaNCell

\* a spreadsheet that pd.read_excel cannot read (missing or damaged file)
Unreadable == [unreadable |-> TRUE]

IsReadable(file) == "cols" \in DOMAIN file

\* Python's None where a table is expected
NoTable == [none |-> TRUE]

\* DataFrame.empty: no rows or no columns
IsEmpty(df) == df.rows = <<>> \/ df.cols = <<>>

HasCol(cols, name) == \E j \in 1..Len(cols) : cols[j] = name

ColIndex(cols, name) ==
  CHOOSE j \in 1..Len(cols) : cols[j] = name /\ \A k \in 1..(j - 1) : cols[k] # name

\* df[[a, b, c]]: the three columns of every row, as a record
project(df, dsei_col, gestantes_col, num_col) ==
  [i \in 1..Len(df.rows) |->
    [dsei |-> df.rows[i][ColIndex(df.cols, dsei_col)],
     gestantes |-> df.rows[i][ColIndex(df.cols, gestantes_col)],
     num |-> df.rows[i][ColIndex(df.cols, num_col)]]]

\* what a cell adds to a sum: 'sum' skips the missing value
CellNum(c) == IF "i" \in DOMAIN c THEN c.i ELSE 0

RECURSIVE SumCells(_)
SumCells(cells) ==
  IF cells = <<>> THEN 0 ELSE CellNum(Head(cells)) + SumCells(Tail(cells))

\* the strings of S in increasing order
RECURSIVE SortedKeys(_)
SortedKeys(S) ==
  IF S = {} THEN <<>>
  ELSE LET m == CHOOSE x \in S : \A y \in S : x = y \/ StrLt(x, y)
       IN <<m>> \o SortedKeys(S \ {m})

\* the group keys of groupby(key): the distinct keys, missing keys dropped
\* (dropna=True), in sorted order (sort=True)
group_keys(recs) ==
  SortedKeys({recs[i].dsei.s : i \in {j \in 1..Len(recs) : ~IsNull(recs[j].dsei)}})

\* the rows of one group together with the rows that name no district
group_members_and_unkeyed(recs, key) ==
  SelectSeq(recs, LAMBDA r : r.dsei = StrCell(key) \/ IsNull(r.dsei))

\* the rows of one group, in their original order
group_members(recs, key) == SelectSeq(recs, LAMBDA r : r.dsei = StrCell(key))

\* the aggregation with 'first' in place of 'sum': a group keeps the counts
\* of its first row only
groupby_first(recs) ==
  LET keys == group_keys(recs)
  IN [j \in 1..Len(keys) |->
       LET m == group_members(recs, keys[j])
       IN [dsei |-> keys[j],
           gestantes |-> CellNum(m[1].gestantes),
           num |-> CellNum(m[1].num)]]

\* groupby(dsei_col).agg({gestantes_col: 'sum', num_col: 'sum'}).reset_index()
groupby_sum(recs) ==
  LET keys == group_keys(recs)
  IN [j \in 1..Len(keys) |->
       LET m == group_members(recs, keys[j])
       IN [dsei |-> keys[j],
           gestantes |-> SumCells([i \in 1..Len(m) |-> m[i].gestantes]),
           num |-> SumCells([i \in 1..Len(m) |-> m[i].num])]]

\* a cell that holds text
IsText(c) == "s" \in DOMAIN c

\* the error of summing the two value columns and dividing the sums: text
\* in a summed column of a grouped row makes the column's dtype object, and
\* the sum (int + str) or the division of the sums (str / int) raises
\* TypeError
sum_error(recs) ==
  IF \E i \in 1..Len(recs) :
       ~IsNull(recs[i].dsei) /\ (IsText(recs[i].gestantes) \/ IsText(recs[i].num))
  THEN "TypeError" ELSE "ok"

\* DataFrame.head(n)
head(seq, n) == SubSeq(seq, 1, IF Len(seq) < n THEN Len(seq) ELSE n)

\* DataFrame.tail(n)
tail(seq, n) == SubSeq(seq, IF Len(seq) < n THEN 1 ELSE Len(seq) - n + 1, Len(seq))

\* the orders in which a sort may return the rows S: a row comes first
\* when no other row has to precede it
RECURSIVE orderings(_, _, _, _)
orderings(rows, by, ascending, S) ==
  IF S = {} THEN {<<>>}
  ELSE LET before(i, j) ==
             IF IsNaN(rows[i][by]) THEN IsNaN(rows[j][by]) /\ i < j
             ELSE \/ IsNaN(rows[j][by])
                  \/ IF ascending THEN ~FLt(rows[j][by], rows[i][by])
                                  ELSE ~FLt(rows[i][by], rows[j][by])
           first == {i \in S : \A j \in S \ {i} : before(i, j)}
       IN UNION {{<<rows[i]>> \o t : t \in orderings(rows, by, ascending, S \ {i})} :
                   i \in first}

\* sort_values(by, ascending) with the default kind='quicksort' and
\* na_position='last': the rows in order of their `by` value, NaN rows last
\* in their original order.  quicksort is not stable: rows of equal value
\* may come out in any order, so the result is one of a set.
sort_values(rows, by, ascending) ==
  UNION {orderings(r, by, ascending, 1..Len(r)) : r \in {rows}}

(***************************************************************************)
(* prenatal_ultrassonografia.py                                            *)
(***************************************************************************)
\* what a failed step leaves: nothing was computed
NotRun == [dsei_col |-> None, gestantes_col |-> None, num_col |-> None,
           err |-> "not run", rows |-> <<>>]

\* groupby(None) raises TypeError; .agg with a None key raises KeyError
resolution_error(dsei_col, gestantes_col, num_col) ==
  IF dsei_col = None THEN "TypeError"
  ELSE IF gestantes_col = None \/ num_col = None THEN "KeyError"
  ELSE "ok"

process_prenatal_data(df) ==
  LET dsei_col == find_column(df.cols, PatDsei)
      gestantes_col == find_column(df.cols, PatGestantes)
      consultas_col == find_column(df.cols, PatConsultas)
      unresolved == resolution_error(dsei_col, gestantes_col, consultas_col)
      recs == project(df, dsei_col, gestantes_col, consultas_col)
      err == IF unresolved # "ok" THEN unresolved ELSE sum_error(recs)
      grouped == groupby_sum(recs)
  IN [dsei_col |-> dsei_col, gestantes_col |-> gestantes_col, num_col |-> consultas_col,
      err |-> err,
      rows |-> IF err # "ok" THEN <<>>
               ELSE [j \in 1..Len(grouped) |->
                      [dsei |-> grouped[j].dsei,
                       gestantes |-> grouped[j].gestantes,
                       num |-> grouped[j].num,
                       cobertura |-> fillna0(Ratio(grouped[j].num, grouped[j].gestantes)),
                       categoria |-> "Pre-Natal (>=6 consultas)"]]]

process_ultrassom_data(df) ==
  LET dsei_col == find_column(df.cols, PatDsei)
      gestantes_col == find_column(df.cols, PatGestantes)
      ultrassom_col == find_column(df.cols, PatUltrassom)
      unresolved == resolution_error(dsei_col, gestantes_col, ultrassom_col)
      recs == project(df, dsei_col, gestantes_col, ultrassom_col)
      err == IF unresolved # "ok" THEN unresolved ELSE sum_error(recs)
      grouped == groupby_sum(recs)
  IN [dsei_col |-> dsei_col, gestantes_col |-> gestantes_col, num_col |-> ultrassom_col,
      err |-> err,
      rows |-> IF err # "ok" THEN <<>>
               ELSE [j \in 1..Len(grouped) |->
                      [dsei |-> grouped[j].dsei,
                       gestantes |-> grouped[j].gestantes,
                       num |-> grouped[j].num,
                       cobertura |-> fillna0(Ratio(grouped[j].num, grouped[j].gestantes)),
                       categoria |-> "Ultrassonografia"]]]

\* generate_graph: every result the two unstable sorts allow
generate_graph(df_prenatal, df_ultrassom, year_label) ==
  UNION {UNION {
    IF prenatal_data.err # "ok" \/ ultrassom_data.err # "ok"
    THEN {[op |-> "generate_graph", ano |-> year_label,
           err |-> IF prenatal_data.err # "ok"
                   THEN prenatal_data.err ELSE ultrassom_data.err,
           prenatal_data |-> prenatal_data, ultrassom_data |-> ultrassom_data,
           top5_prenatal |-> <<>>, top5_ultrassom |-> <<>>, combined_data |-> <<>>]}
    ELSE {[op |-> "generate_graph", ano |-> year_label, err |-> "ok",
           prenatal_data |-> prenatal_data, ultrassom_data |-> ultrassom_data,
           top5_prenatal |-> head(sp, TopN), top5_ultrassom |-> head(su, TopN),
           combined_data |-> head(sp, TopN) \o head(su, TopN)] :
            sp \in sort_values(prenatal_data.rows, "cobertura", FALSE),
            su \in sort_values(ultrassom_data.rows, "cobertura", FALSE)} :
      ultrassom_data \in {IF prenatal_data.err = "ok"
                          THEN process_ultrassom_data(df_ultrassom) ELSE NotRun}} :
    prenatal_data \in {process_prenatal_data(df_prenatal)}}

(***************************************************************************)
(* Frame operations shared by the other scripts.                           *)
(***************************************************************************)
\* df["ano"] = ano
with_ano(df, ano) ==
  [cols |-> Append(df.cols, s_ano),
   rows |-> [i \in 1..Len(df.rows) |-> Append(df.rows[i], IntCell(ano))]]

\* pd.concat([a, b], ignore_index=True) of two frames with the same columns
concat(a, b) == [cols |-> a.cols, rows |-> a.rows \o b.rows]

\* [col for col in columns if p1 in col or p2 in col ...]
cols_containing(cols, patterns) ==
  SelectSeq(cols, LAMBDA col : \E i \in 1..Len(patterns) : Contains(patterns[i], col))

\* [...][0] of that list; None stands for the IndexError of an empty list
first_containing(cols, patterns) ==
  LET found == cols_containing(cols, patterns)
  IN IF found = <<>> THEN None ELSE found[1]

\* [col for col in columns if p1 in col.lower() or p2 in col.lower() ...]
cols_containing_lower(cols, patterns) ==
  SelectSeq(cols, LAMBDA col :
    LET low == Lower(col) IN \E i \in 1..Len(patterns) : Contains(patterns[i], low))

first_containing_lower(cols, patterns) ==
  LET found == cols_containing_lower(cols, patterns)
  IN IF found = <<>> THEN None ELSE found[1]

\* a column label carried by more than one column
Duplicated(cols, name) == Cardinality({j \in 1..Len(cols) : cols[j] = name}) > 1

\* a / b on two cells of a numeric column
CellRatio(a, b) == IF IsNull(a) \/ IsNull(b) THEN NaN ELSE Ratio(a.i, b.i)

\* the grouped frame with its coverage column consultas / gestantes
with_cobertura(grouped) ==
  [j \in 1..Len(grouped) |->
    [dsei |-> grouped[j].dsei,
     gestantes |-> grouped[j].gestantes,
     num |-> grouped[j].num,
     cobertura |-> Ratio(grouped[j].num, grouped[j].gestantes)]]

(***************************************************************************)
(* graficos_cobertura_prenatal.py                                          *)
(***************************************************************************)
clean_column_names_graficos(df) ==
  [cols |-> [j \in 1..Len(df.cols) |-> clean_column_name_graficos(df.cols[j])],
   rows |-> df.rows]

carregar_dados_prenatal(prenatal_2022, prenatal_2023) ==
  clean_column_names_graficos(
    concat(with_ano(prenatal_2022, Ano2022), with_ano(prenatal_2023, Ano2023)))

\* the error of the four column lookups and of the groupby that follows:
\* [0] of an empty list raises IndexError, groupby on a label that two
\* columns carry raises ValueError
lookup_error(cols, dsei_col, gestantes_col, num_col, ano_col) ==
  IF dsei_col = None \/ gestantes_col = None \/ num_col = None \/ ano_col = None
  THEN "IndexError"
  ELSE IF Duplicated(cols, dsei_col) THEN "ValueError"
  ELSE "ok"

\* plot_cobertura_prenatal up to the hand-off to the plot: every result the
\* unstable sort allows
plot_cobertura_prenatal(df_prenatal, ano, tipo) ==
  LET cols == df_prenatal.cols
      dsei_col == first_containing_lower(cols, <<s_dsei>>)
      gestantes_col == first_containing_lower(cols, <<s_gestante>>)
      consultas_col == first_containing_lower(cols, <<s_6_ou_mais, s_ge6>>)
      ano_col == first_containing_lower(cols, <<s_ano>>)
      unresolved == lookup_error(cols, dsei_col, gestantes_col, consultas_col, ano_col)
      df_filtrado == [cols |-> cols,
                      rows |-> SelectSeq(df_prenatal.rows,
                                 LAMBDA r : r[ColIndex(cols, ano_col)] = IntCell(ano))]
      recs == project(df_filtrado, dsei_col, gestantes_col, consultas_col)
      err == IF unresolved # "ok" THEN unresolved ELSE sum_error(recs)
      grouped == with_cobertura(groupby_sum(recs))
      base == [op |-> "plot_cobertura_prenatal", ano |-> ano, tipo |-> tipo,
               cols |-> cols, dsei_col |-> dsei_col, gestantes_col |-> gestantes_col,
               num_col |-> consultas_col]
  IN IF err # "ok"
     THEN {base @@ [err |-> err, grouped |-> <<>>, df_final |-> <<>>]}
     ELSE IF tipo \notin {"top", "bottom"}
     THEN {base @@ [err |-> "ValueError", grouped |-> grouped, df_final |-> <<>>]}
     ELSE {base @@ [err |-> "ok", grouped |-> grouped, df_final |-> head(s, TopN)] :
             s \in sort_values(grouped, "cobertura", tipo = "bottom")}

\* a plot that is drawn and saved whatever the function raised
plotted_always(result, salvar) ==
  result @@ [salvar |-> salvar, drawn |-> TRUE, saved |-> salvar]

\* the end of a plotting function: plt.figure ... plt.show(), and savefig
\* when salvar, are reached when nothing was raised before them
plotted(result, salvar) ==
  result @@ [salvar |-> salvar, drawn |-> result.err = "ok",
             saved |-> result.err = "ok" /\ salvar]

\* the rows of one year
rows_of_ano(df, ano_col, ano) ==
  [cols |-> df.cols,
   rows |-> SelectSeq(df.rows, LAMBDA r : r[ColIndex(df.cols, ano_col)] = IntCell(ano))]

\* grouped.pivot(index=dsei_col, columns=ano_col, values='cobertura'): one
\* row per district of either year, in sorted order, a year in which the
\* district has no group being missing
pivot(g2022, g2023) ==
  LET keys == SortedKeys({g2022[j].dsei : j \in 1..Len(g2022)}
                           \cup {g2023[j].dsei : j \in 1..Len(g2023)})
      value(g, k) == IF \E j \in 1..Len(g) : g[j].dsei = k
                     THEN g[CHOOSE j \in 1..Len(g) : g[j].dsei = k].cobertura
                     ELSE NaN
  IN [j \in 1..Len(keys) |->
       [dsei |-> keys[j], c2022 |-> value(g2022, keys[j]), c2023 |-> value(g2023, keys[j])]]

\* plot_comparativo_cobertura up to the hand-off to the plot: the districts
\* selected by their 2023 coverage, every result the unstable sort allows
plot_comparativo_cobertura(df_prenatal, tipo) ==
  LET cols == df_prenatal.cols
      dsei_col == first_containing_lower(cols, <<s_dsei>>)
      gestantes_col == first_containing_lower(cols, <<s_gestante>>)
      consultas_col == first_containing_lower(cols, <<s_6_ou_mais, s_ge6>>)
      ano_col == first_containing_lower(cols, <<s_ano>>)
      unresolved == lookup_error(cols, dsei_col, gestantes_col, consultas_col, ano_col)
      recs(ano) == project(rows_of_ano(df_prenatal, ano_col, ano),
                           dsei_col, gestantes_col, consultas_col)
      err == IF unresolved # "ok" THEN unresolved
             ELSE IF sum_error(recs(Ano2022)) # "ok" THEN "TypeError"
             ELSE sum_error(recs(Ano2023))
      g2022 == with_cobertura(groupby_sum(recs(Ano2022)))
      g2023 == with_cobertura(groupby_sum(recs(Ano2023)))
      df_pivot == SelectSeq(pivot(g2022, g2023),
                            LAMBDA r : ~IsNaN(r.c2022) /\ ~IsNaN(r.c2023))
      base == [op |-> "plot_comparativo_cobertura", tipo |-> tipo, cols |-> cols,
               df_pivot |-> <<>>, selecionados |-> <<>>]
  IN IF err # "ok" THEN {[err |-> err] @@ base}
     ELSE IF tipo \notin {"top", "bottom"}
     THEN {[err |-> "ValueError", df_pivot |-> df_pivot] @@ base}
     ELSE IF g2023 = <<>>
     THEN {[err |-> "KeyError", df_pivot |-> df_pivot] @@ base}
     ELSE {[err |-> "ok", df_pivot |-> df_pivot, selecionados |-> head(s, TopN)] @@ base :
             s \in sort_values(df_pivot, "c2023", tipo = "bottom")}

\* pivot_df['variacao'] = ((pivot_df[2023] - pivot_df[2022]) / pivot_df[2022]) * 100
with_variacao(pivot_df) ==
  [j \in 1..Len(pivot_df) |->
    pivot_df[j] @@
      [variacao |-> FMulInt(FDiv(FSub(pivot_df[j].c2023, pivot_df[j].c2022), pivot_df[j].c2022), Pct)]]

\* comparar_evolucao_cobertura up to the hand-off to its two plots: every
\* result the unstable sorts allow
comparar_evolucao_cobertura(df_prenatal) ==
  LET cols == df_prenatal.cols
      dsei_col == first_containing_lower(cols, <<s_dsei>>)
      gestantes_col == first_containing_lower(cols, <<s_gestante>>)
      consultas_col == first_containing_lower(cols, <<s_6_ou_mais, s_ge6>>)
      ano_col == first_containing_lower(cols, <<s_ano>>)
      unresolved == lookup_error(cols, dsei_col, gestantes_col, consultas_col, ano_col)
      recs(ano) == project(rows_of_ano(df_prenatal, ano_col, ano),
                           dsei_col, gestantes_col, consultas_col)
      err == IF unresolved # "ok" THEN unresolved
             ELSE IF sum_error(recs(Ano2022)) # "ok" THEN "TypeError"
             ELSE sum_error(recs(Ano2023))
      g2022 == with_cobertura(groupby_sum(recs(Ano2022)))
      g2023 == with_cobertura(groupby_sum(recs(Ano2023)))
      both_years == g2022 # <<>> /\ g2023 # <<>>
      pivot_df == with_variacao(
                    SelectSeq(pivot(g2022, g2023),
                              LAMBDA r : ~IsNaN(r.c2022) /\ ~IsNaN(r.c2023)))
      base == [op |-> "comparar_evolucao_cobertura", g2022 |-> <<>>, g2023 |-> <<>>,
               pivot_df |-> <<>>, destaque_dseis |-> <<>>, top_10_dseis |-> <<>>]
  IN IF err # "ok" THEN {[err |-> err] @@ base}
     ELSE IF ~both_years
     THEN {[err |-> "ok", g2022 |-> g2022, g2023 |-> g2023] @@ base}
     ELSE UNION {{[err |-> "ok", g2022 |-> g2022, g2023 |-> g2023, pivot_df |-> pivot_df,
                   destaque_dseis |-> d, top_10_dseis |-> head(s, Top10)] @@ base :
                    s \in sort_values(d, "variacao", FALSE)} :
                  d \in sort_values(pivot_df, "variacao", FALSE)}

\* the integers of S in increasing order
RECURSIVE SortedInts(_)
SortedInts(S) ==
  IF S = {} THEN <<>>
  ELSE LET m == CHOOSE x \in S : \A y \in S : x <= y
       IN <<m>> \o SortedInts(S \ {m})

\* f"{x:.1%}": the percentage rounded to one decimal (ties to even), kept
\* as its sign and its tenths of a percent; nan and inf are written as text
format_percent(x) ==
  IF IsNaN(x) THEN [text |-> "nan%"]
  ELSE IF IsInf(x) THEN [text |-> IF x.n > 0 THEN "inf%" ELSE "-inf%"]
  ELSE LET scaled == Abs(x.n) * Pct * 10
           q == scaled \div x.d
           r == scaled % x.d
       IN [text |-> "%", sign |-> Sign(x.n),
           tenths |-> IF 2 * r > x.d THEN q + 1
                      ELSE IF 2 * r = x.d THEN q + (q % 2)
                      ELSE q]

\* float(text.strip('%')) / 100
parse_percent(m) ==
  IF m.text = "nan%" THEN NaN
  ELSE IF m.text = "inf%" THEN Inf
  ELSE IF m.text = "-inf%" THEN [n |-> -1, d |-> 0]
  ELSE Ratio(m.sign * m.tenths, Pct * 10)

\* gerar_resumo_estatistico: one row per year of the table, in increasing
\* order, with the coverage of the year's sums formatted as a percentage
gerar_resumo_estatistico(df) ==
  LET cols == df.cols
      dsei_col == first_containing_lower(cols, <<s_dsei>>)
      gestantes_col == first_containing_lower(cols, <<s_gestante>>)
      consultas_col == first_containing_lower(cols, <<s_6_ou_mais, s_ge6>>)
      ano_col == first_containing_lower(cols, <<s_ano>>)
      unresolved == dsei_col = None \/ gestantes_col = None
                      \/ consultas_col = None \/ ano_col = None
      recs(ano) == project(rows_of_ano(df, ano_col, ano),
                           dsei_col, gestantes_col, consultas_col)
      anos == SortedInts({df.rows[i][ColIndex(cols, ano_col)].i :
                            i \in {k \in 1..Len(df.rows) :
                                     "i" \in DOMAIN df.rows[k][ColIndex(cols, ano_col)]}})
      text == \E j \in 1..Len(anos) : \E i \in 1..Len(recs(anos[j])) :
                IsText(recs(anos[j])[i].gestantes) \/ IsText(recs(anos[j])[i].num)
      sum(ano, field) == SumCells([i \in 1..Len(recs(ano)) |-> recs(ano)[i][field]])
  IN IF unresolved THEN [err |-> "IndexError", rows |-> <<>>]
     ELSE IF text THEN [err |-> "TypeError", rows |-> <<>>]
     ELSE [err |-> "ok",
           rows |-> [j \in 1..Len(anos) |->
                      [ano |-> IntCell(anos[j]),
                       media |-> format_percent(
                                   Ratio(sum(anos[j], "num"), sum(anos[j], "gestantes")))]]]

\* the year as the text the summary is searched for
AnoText(ano) ==
  IF ano = Ano2022 THEN StrCell(<<"2", "0", "2", "2">>) ELSE StrCell(<<"2", "0", "2", "3">>)

\* visualizar_todos_graficos: what the run prints and the charts it calls
\* for, in order, up to the first exception
visualizar_todos_graficos(prenatal_2022, prenatal_2023) ==
  LET says(msg) == [ev |-> "print", msg |-> msg]
      chart(fn, ano, tipo, results) ==
        [ev |-> "chart", fn |-> fn, ano |-> ano, tipo |-> tipo,
         err |-> (CHOOSE r \in results : TRUE).err]
      base == [op |-> "visualizar_todos_graficos", err |-> "ok", resumo |-> <<>>]
      loaded == <<says("carregados"), says("resumo_estatistico")>>
      \* the run once the table, its summary and the outcome of the chart
      \* calls are known; last is the call that raised, or the last call
      run(df, resumo, calls, last) ==
        LET valores == {resumo.rows[j].ano : j \in 1..Len(resumo.rows)}
            compared == AnoText(Ano2022) \in valores /\ AnoText(Ano2023) \in valores
            found(ano) == \E j \in 1..Len(resumo.rows) : resumo.rows[j].ano = IntCell(ano)
            media(ano) ==
              parse_percent(resumo.rows[CHOOSE j \in 1..Len(resumo.rows) :
                                          resumo.rows[j].ano = IntCell(ano)].media)
            variacao == FSub(media(Ano2023), media(Ano2022))
            mensagem ==
              [ev |-> "print",
               msg |-> IF FLt(FromInt(0), variacao) THEN "melhora" ELSE "reducao",
               variacao |-> format_percent(
                              IF FLt(variacao, FromInt(0))
                              THEN FSub(FromInt(0), variacao) ELSE variacao)]
        IN IF resumo.err # "ok"
           THEN base @@ [err |-> resumo.err, events |-> loaded]
           ELSE IF compared /\ ~(found(Ano2022) /\ found(Ano2023))
           THEN [err |-> "IndexError", resumo |-> resumo.rows] @@ base
                  @@ [events |-> loaded \o <<says("resumo")>>]
           ELSE [err |-> calls[last].err, resumo |-> resumo.rows] @@ base
                  @@ [events |-> loaded \o <<says("resumo")>>
                                   \o (IF compared THEN <<mensagem>> ELSE <<>>)
                                   \o SubSeq(calls, 1, last)
                                   \o (IF calls[last].err = "ok"
                                       THEN <<says("graficos_gerados")>> ELSE <<>>)]
  IN IF ~(IsReadable(prenatal_2022) /\ IsReadable(prenatal_2023))
     THEN base @@ [events |-> <<says("erro_carregar"), says("erro_carregamento")>>]
     ELSE
       CHOOSE result \in UNION {UNION {UNION {
         {run(df, resumo, calls, last) :
            last \in {IF \A k \in 1..Len(calls) : calls[k].err = "ok" THEN Len(calls)
                      ELSE CHOOSE k \in 1..Len(calls) :
                             /\ calls[k].err # "ok"
                             /\ \A j \in 1..(k - 1) : calls[j].err = "ok"}} :
           calls \in
             {<<chart("plot_cobertura_prenatal", Ano2022, "top",
                      plot_cobertura_prenatal(df, Ano2022, "top")),
                chart("plot_cobertura_prenatal", Ano2022, "bottom",
                      plot_cobertura_prenatal(df, Ano2022, "bottom")),
                chart("plot_cobertura_prenatal", Ano2023, "top",
                      plot_cobertura_prenatal(df, Ano2023, "top")),
                chart("plot_cobertura_prenatal", Ano2023, "bottom",
                      plot_cobertura_prenatal(df, Ano2023, "bottom")),
                chart("plot_comparativo_cobertura", 0, "top",
                      plot_comparativo_cobertura(df, "top")),
                chart("plot_comparativo_cobertura", 0, "bottom",
                      plot_comparativo_cobertura(df, "bottom")),
                chart("comparar_evolucao_cobertura", 0, "",
                      comparar_evolucao_cobertura(df))>>}} :
          resumo \in {gerar_resumo_estatistico(df)}} :
         df \in {carregar_dados_prenatal(prenatal_2022, prenatal_2023)}} : TRUE

(***************************************************************************)
(* analise_gap_tecnologico.py                                              *)
(***************************************************************************)
clean_column_names_gap(df) ==
  [cols |-> [j \in 1..Len(df.cols) |-> clean_column_name_gap(df.cols[j])],
   rows |-> df.rows]

\* left.merge(right, on=dsei_col): the inner join of two grouped frames, in
\* the order of the left keys
merge_inner(left, right) ==
  LET both == SelectSeq(left, LAMBDA l : \E k \in 1..Len(right) : right[k].dsei = l.dsei)
  IN [j \in 1..Len(both) |->
       [dsei |-> both[j].dsei,
        cobertura_prenatal |-> both[j].cobertura,
        cobertura_ultrassom |->
          right[CHOOSE k \in 1..Len(right) : right[k].dsei = both[j].dsei].cobertura]]

\* df["gap"] = df["cobertura_prenatal"] - df["cobertura_ultrassom"]
with_gap(df) ==
  [j \in 1..Len(df) |->
    [dsei |-> df[j].dsei,
     cobertura_prenatal |-> df[j].cobertura_prenatal,
     cobertura_ultrassom |-> df[j].cobertura_ultrassom,
     gap |-> FSub(df[j].cobertura_prenatal, df[j].cobertura_ultrassom)]]

\* create_heatmap_comparison up to the hand-off to the plot: every result
\* the unstable sort allows
create_heatmap_comparison(prenatal_2022, prenatal_2023, ultrassom_2022, ultrassom_2023) ==
  LET df_prenatal == concat(with_ano(clean_column_names_gap(prenatal_2022), Ano2022),
                            with_ano(clean_column_names_gap(prenatal_2023), Ano2023))
      df_ultrassom == concat(with_ano(clean_column_names_gap(ultrassom_2022), Ano2022),
                             with_ano(clean_column_names_gap(ultrassom_2023), Ano2023))
      dsei_col == first_containing(df_prenatal.cols, <<s_dsei>>)
      gestantes_col == first_containing(df_prenatal.cols, <<s_gestante>>)
      consultas_col == first_containing(df_prenatal.cols, <<s_6_ou_mais, s_ge6>>)
      ultrassom_gest_col == first_containing(df_ultrassom.cols, <<s_gestante>>)
      ultrassons_col == first_containing(df_ultrassom.cols, <<s_ultrassom, s_ultrassonografia>>)
      recs_prenatal == project(df_prenatal, dsei_col, gestantes_col, consultas_col)
      recs_ultrassom == project(df_ultrassom, dsei_col, ultrassom_gest_col, ultrassons_col)
      err == IF \/ dsei_col = None \/ gestantes_col = None \/ consultas_col = None
                \/ ultrassom_gest_col = None \/ ultrassons_col = None
             THEN "IndexError"
             ELSE IF Duplicated(df_prenatal.cols, dsei_col) THEN "ValueError"
             ELSE IF sum_error(recs_prenatal) # "ok" THEN "TypeError"
             ELSE IF ~HasCol(df_ultrassom.cols, dsei_col) THEN "KeyError"
             ELSE IF Duplicated(df_ultrassom.cols, dsei_col) THEN "ValueError"
             ELSE sum_error(recs_ultrassom)
      prenatal_grouped == with_cobertura(groupby_sum(recs_prenatal))
      ultrassom_grouped == with_cobertura(groupby_sum(recs_ultrassom))
      df == with_gap(merge_inner(prenatal_grouped, ultrassom_grouped))
      base == [op |-> "create_heatmap_comparison",
               cols_prenatal |-> df_prenatal.cols, cols_ultrassom |-> df_ultrassom.cols,
               dsei_col |-> dsei_col, gestantes_col |-> gestantes_col,
               num_col |-> consultas_col]
  IN IF err # "ok"
     THEN {base @@ [err |-> err, prenatal_grouped |-> <<>>, ultrassom_grouped |-> <<>>,
                    df |-> <<>>, df_sorted |-> <<>>]}
     ELSE {base @@ [err |-> "ok", prenatal_grouped |-> prenatal_grouped,
                    ultrassom_grouped |-> ultrassom_grouped, df |-> df, df_sorted |-> s] :
             s \in sort_values(df, "gap", FALSE)}

\* the load that prints no warning for an empty table
carregar_dados_sem_aviso(prenatal_2022, prenatal_2023, ultrassom_2022, ultrassom_2023) ==
  LET files == <<prenatal_2022, prenatal_2023, ultrassom_2022, ultrassom_2023>>
  IN IF \A i \in 1..4 : IsReadable(files[i])
     THEN [lidos |-> 4, erro |-> FALSE, tabelas |-> files, avisos |-> {}]
     ELSE [lidos |-> 1, erro |-> TRUE,
           tabelas |-> <<NoTable, NoTable, NoTable, NoTable>>, avisos |-> {}]

\* carregar_dados: the four read_excel calls in one try.  The first file
\* that cannot be read ends the try: the files after it are not read and
\* four None are returned.  Otherwise a warning is printed for every empty
\* table and the four tables are returned.
carregar_dados(prenatal_2022, prenatal_2023, ultrassom_2022, ultrassom_2023) ==
  LET files == <<prenatal_2022, prenatal_2023, ultrassom_2022, ultrassom_2023>>
      bad == {i \in 1..4 : ~IsReadable(files[i])}
      first_bad == CHOOSE i \in bad : \A k \in bad : i <= k
  IN IF bad = {}
     THEN [lidos |-> 4, erro |-> FALSE, tabelas |-> files,
           avisos |-> {i \in 1..4 : IsEmpty(files[i])}]
     ELSE [lidos |-> first_bad, erro |-> TRUE,
           tabelas |-> <<NoTable, NoTable, NoTable, NoTable>>, avisos |-> {}]

\* create_heatmap_comparison was not called
NotCalled == [op |-> "not called", err |-> "ok"]

\* analisar_gap_tecnologico up to the summary of the gap: the load, then
\* create_heatmap_comparison when no table is None, the counts of positive
\* and negative gaps, the three largest and the three smallest gaps
analisar_gap_tecnologico(prenatal_2022, prenatal_2023, ultrassom_2022, ultrassom_2023) ==
  LET c == carregar_dados(prenatal_2022, prenatal_2023, ultrassom_2022, ultrassom_2023)
      zero == FromInt(0)
      count(df, lt) == Cardinality({j \in 1..Len(df) :
                         IF lt THEN FLt(df[j].gap, zero) ELSE FLt(zero, df[j].gap)})
  IN IF \E i \in 1..4 : c.tabelas[i] = NoTable
     THEN {[op |-> "analisar_gap_tecnologico", carregados |-> c, err |-> "ok",
            heatmap |-> NotCalled, gap_positivo |-> 0, gap_negativo |-> 0,
            top_gaps |-> <<>>, bottom_gaps |-> <<>>]}
     ELSE {[op |-> "analisar_gap_tecnologico", carregados |-> c, err |-> h.err,
            heatmap |-> h,
            gap_positivo |-> count(h.df_sorted, FALSE),
            gap_negativo |-> count(h.df_sorted, TRUE),
            top_gaps |-> head(h.df_sorted, TopGaps),
            bottom_gaps |-> tail(h.df_sorted, TopGaps)] :
             h \in create_heatmap_comparison(c.tabelas[1], c.tabelas[2],
                                             c.tabelas[3], c.tabelas[4])}

(***************************************************************************)
(* ultrassons.py                                                           *)
(***************************************************************************)
\* df.columns.str.strip().str.lower()
strip_lower(cols) == [j \in 1..Len(cols) |-> Lower(Strip(cols[j]))]

\* rename(columns={'dsei_gestao': 'dsei', ...}) of the 2022 file
rename_known(cols) ==
  [j \in 1..Len(cols) |->
    CASE cols[j] = s_dsei_gestao -> s_dsei
      [] cols[j] = s_n_gestantes -> s_gestantes
      [] cols[j] = s_com_acesso -> s_ultrassons
      [] OTHER -> cols[j]]

\* the column_mapping loop of the 2023 file, then rename(columns=column_mapping)
rename_by_substring(cols) ==
  [j \in 1..Len(cols) |->
    IF Contains(s_dsei, Lower(cols[j])) \/ Contains(s_distrito, Lower(cols[j])) THEN s_dsei
    ELSE IF Contains(s_gestante, Lower(cols[j])) THEN s_gestantes
    ELSE IF Contains(s_ultrassom, Lower(cols[j])) \/ Contains(s_acesso, Lower(cols[j]))
    THEN s_ultrassons
    ELSE cols[j]]

\* pd.to_numeric(errors='coerce') on a cell: what is no number becomes NaN
to_numeric(c) == IF "i" \in DOMAIN c THEN c ELSE NaNCell

\* The exception the statements after the renaming raise, all of them caught
\* by the function's except clause: a missing 'gestantes', 'ultrassons' or
\* 'dsei' is a KeyError; a label carried by two columns makes df[label] a
\* frame, which to_numeric and the plot refuse.
renamed_error(cols) ==
  IF ~HasCol(cols, s_gestantes) \/ ~HasCol(cols, s_ultrassons) \/ ~HasCol(cols, s_dsei)
  THEN "KeyError"
  ELSE IF \/ Duplicated(cols, s_gestantes) \/ Duplicated(cols, s_ultrassons)
          \/ Duplicated(cols, s_dsei)
  THEN "TypeError"
  ELSE "ok"

\* to_numeric, dropna, gestantes > 0, then the coverage of every row left
cobertura_por_linha(df) ==
  LET recs == project(df, s_dsei, s_gestantes, s_ultrassons)
      num(r) == [dsei |-> r.dsei, gestantes |-> to_numeric(r.gestantes), num |-> to_numeric(r.num)]
      valid == SelectSeq([i \in 1..Len(recs) |-> num(recs[i])],
                 LAMBDA r : /\ ~IsNull(r.dsei) /\ ~IsNull(r.gestantes) /\ ~IsNull(r.num)
                            /\ r.gestantes.i > 0)
  IN [i \in 1..Len(valid) |->
       [dsei |-> valid[i].dsei.s,
        gestantes |-> valid[i].gestantes.i,
        num |-> valid[i].num.i,
        cobertura |-> Ratio(valid[i].num.i, valid[i].gestantes.i),
        cobertura_percentual |-> FMulInt(Ratio(valid[i].num.i, valid[i].gestantes.i), Pct)]]

\* top5 and bottom5 with their category, concatenated: every result the two
\* unstable sorts allow
top5_bottom5(rows, by) ==
  {[i \in 1..Len(head(top, TopN)) |-> head(top, TopN)[i] @@ [categoria |-> "Mais Cobertura"]]
     \o [i \in 1..Len(head(bot, TopN)) |-> head(bot, TopN)[i] @@ [categoria |-> "Menos Cobertura"]] :
     top \in sort_values(rows, by, FALSE), bot \in sort_values(rows, by, TRUE)}

\* both single-year analyses after their renaming
analysis_of(op, cols, df) ==
  LET err == renamed_error(cols)
      rows == cobertura_por_linha([cols |-> cols, rows |-> df.rows])
  IN IF err # "ok"
     THEN {[op |-> op, cols |-> cols, err |-> "ERRO", raised |-> err,
            rows |-> <<>>, final_df |-> <<>>]}
     ELSE {[op |-> op, cols |-> cols, err |-> "ok", raised |-> "none",
            rows |-> rows, final_df |-> f] : f \in top5_bottom5(rows, "cobertura")}

\* read_excel failed inside the try of an analysis
read_failed(op) ==
  {[op |-> op, cols |-> <<>>, err |-> "ERRO", raised |-> "FileNotFoundError",
    rows |-> <<>>, final_df |-> <<>>]}

ultrassom_coverage_analysis(df_ultrassom) ==
  IF ~IsReadable(df_ultrassom) THEN read_failed("ultrassom_coverage_analysis")
  ELSE analysis_of("ultrassom_coverage_analysis",
                   rename_known(strip_lower(df_ultrassom.cols)), df_ultrassom)

ultrassom_coverage_analysis_2023(df_ultrassom) ==
  IF ~IsReadable(df_ultrassom) THEN read_failed("ultrassom_coverage_analysis_2023")
  ELSE analysis_of("ultrassom_coverage_analysis_2023",
                   rename_by_substring(strip_lower(df_ultrassom.cols)), df_ultrassom)

RECURSIVE FSum(_)
FSum(xs) == IF xs = <<>> THEN FromInt(0) ELSE FAdd(Head(xs), FSum(Tail(xs)))

\* groupby('dsei')['cobertura_percentual'].mean().reset_index()
groupby_mean(rows) ==
  LET keys == SortedKeys({rows[i].dsei : i \in 1..Len(rows)})
  IN [j \in 1..Len(keys) |->
       LET m == SelectSeq(rows, LAMBDA r : r.dsei = keys[j])
       IN [dsei |-> keys[j],
           cobertura_percentual |->
             FDivInt(FSum([i \in 1..Len(m) |-> m[i].cobertura_percentual]), Len(m))]]

ultrassom_coverage_combined_2022_2023(ultrassom_2022, ultrassom_2023) ==
  IF ~IsReadable(ultrassom_2022) \/ ~IsReadable(ultrassom_2023)
  THEN {[op |-> "ultrassom_coverage_combined_2022_2023", err |-> "ERRO",
         raised |-> "FileNotFoundError", df_combined |-> <<>>, df_avg |-> <<>>,
         final_df |-> <<>>]}
  ELSE
  LET cols_2022 == rename_known(strip_lower(ultrassom_2022.cols))
      cols_2023 == rename_by_substring(strip_lower(ultrassom_2023.cols))
      err == IF renamed_error(cols_2022) # "ok" THEN renamed_error(cols_2022)
             ELSE renamed_error(cols_2023)
      df_2022 == cobertura_por_linha([cols |-> cols_2022, rows |-> ultrassom_2022.rows])
      df_2023 == cobertura_por_linha([cols |-> cols_2023, rows |-> ultrassom_2023.rows])
      df_combined == df_2022 \o df_2023
      df_avg == groupby_mean(df_combined)
      op == "ultrassom_coverage_combined_2022_2023"
  IN IF err # "ok"
     THEN {[op |-> op, err |-> "ERRO", raised |-> err, df_combined |-> <<>>,
            df_avg |-> <<>>, final_df |-> <<>>]}
     ELSE {[op |-> op, err |-> "ok", raised |-> "none", df_combined |-> df_combined,
            df_avg |-> df_avg, final_df |-> f] :
             f \in top5_bottom5(df_avg, "cobertura_percentual")}

\* the script run as __main__: the 2022 analysis, the 2023 analysis, the
\* combined analysis, each behind its own except
ultrassons_main(ultrassom_2022, ultrassom_2023) ==
  {[op |-> "ultrassons_main", err |-> "ok",
    analysis_2022 |-> a, analysis_2023 |-> b, combined |-> c] :
     a \in ultrassom_coverage_analysis(ultrassom_2022),
     b \in ultrassom_coverage_analysis_2023(ultrassom_2023),
     c \in ultrassom_coverage_combined_2022_2023(ultrassom_2022, ultrassom_2023)}

(***************************************************************************)
(* mapa_desigualdades.py                                                   *)
(***************************************************************************)
\* pd.merge(df, df_us[["DSEI", "cobertura_ultrassom"]], on="DSEI", how="left"):
\* every left row, once per right row of the same key (two missing keys
\* match), or once with a missing cobertura_ultrassom
RECURSIVE merge_left(_, _)
merge_left(left, right) ==
  IF left = <<>> THEN <<>>
  ELSE LET l == Head(left)
           hits == SelectSeq(right, LAMBDA r : r.DSEI = l.DSEI)
           joined == IF hits = <<>>
                     THEN <<l @@ [cobertura_ultrassom |-> NaN]>>
                     ELSE [k \in 1..Len(hits) |->
                            l @@ [cobertura_ultrassom |-> hits[k].cobertura_ultrassom]]
       IN joined \o merge_left(Tail(left), right)

\* the error of dividing one column by another row by row: text in either
\* column raises TypeError (str / int)
division_error(recs) ==
  IF \E i \in 1..Len(recs) : IsText(recs[i].gestantes) \/ IsText(recs[i].num)
  THEN "TypeError" ELSE "ok"

calcular_cobertura(df_prenatal, df_ultrassom, ano) ==
  LET p == project(df_prenatal, s_DSEI_GESTAO, s_N_GESTANTES, s_6_OU_MAIS_CONSULTAS)
      u == project(df_ultrassom, s_DSEI_GESTAO, s_N_GESTANTES, s_COM_ACESSO)
      err == IF \/ ~HasCol(df_prenatal.cols, s_DSEI_GESTAO)
                \/ ~HasCol(df_prenatal.cols, s_N_GESTANTES)
                \/ ~HasCol(df_prenatal.cols, s_6_OU_MAIS_CONSULTAS)
             THEN "KeyError"
             ELSE IF division_error(p) # "ok" THEN "TypeError"
             ELSE IF \/ ~HasCol(df_ultrassom.cols, s_DSEI_GESTAO)
                     \/ ~HasCol(df_ultrassom.cols, s_N_GESTANTES)
                     \/ ~HasCol(df_ultrassom.cols, s_COM_ACESSO)
             THEN "KeyError"
             ELSE division_error(u)
      df == [i \in 1..Len(p) |->
              [DSEI |-> p[i].dsei, gestantes |-> p[i].gestantes, consultas_6mais |-> p[i].num,
               cobertura_prenatal |-> FMulInt(CellRatio(p[i].num, p[i].gestantes), Pct)]]
      df_us == [i \in 1..Len(u) |->
                 [DSEI |-> u[i].dsei, gestantes_us |-> u[i].gestantes, ultrassons |-> u[i].num,
                  cobertura_ultrassom |-> FMulInt(CellRatio(u[i].num, u[i].gestantes), Pct)]]
      merged == merge_left(df, df_us)
  IN [op |-> "calcular_cobertura", ano |-> ano, err |-> err,
      df_us |-> IF err = "ok" THEN df_us ELSE <<>>,
      df_merged |-> IF err = "ok"
                    THEN [i \in 1..Len(merged) |-> merged[i] @@ [ano |-> ano]]
                    ELSE <<>>]

(***************************************************************************)
(* prenatal_mortalidade.py                                                 *)
(***************************************************************************)
\* columns.str.strip(), then dropna(subset=["DSEI_GESTAO"])
strip_dropna(df) ==
  LET cols == [j \in 1..Len(df.cols) |-> Strip(df.cols[j])]
  IN [cols |-> cols,
      rows |-> SelectSeq(df.rows, LAMBDA r : ~IsNull(r[ColIndex(cols, s_DSEI_GESTAO)]))]

\* the script up to prenatal_grouped, with its coverage in percent
prenatal_grouped(prenatal_2022, prenatal_2023) ==
  LET cols == [j \in 1..Len(prenatal_2022.cols) |-> Strip(prenatal_2022.cols[j])]
      prenatal == concat(strip_dropna(prenatal_2022), strip_dropna(prenatal_2023))
      recs == project(prenatal, s_DSEI_GESTAO, s_N_GESTANTES, s_6_OU_MAIS_CONSULTAS)
      err == IF \/ ~HasCol(cols, s_DSEI_GESTAO) \/ ~HasCol(cols, s_N_GESTANTES)
                \/ ~HasCol(cols, s_6_OU_MAIS_CONSULTAS)
             THEN "KeyError" ELSE sum_error(recs)
      grouped == groupby_sum(recs)
  IN [op |-> "prenatal_grouped", err |-> err,
      prenatal |-> IF err = "ok" THEN prenatal.rows ELSE <<>>,
      grouped |-> IF err # "ok" THEN <<>>
                  ELSE [j \in 1..Len(grouped) |->
                         [dsei |-> grouped[j].dsei,
                          gestantes |-> grouped[j].gestantes,
                          num |-> grouped[j].num,
                          cobertura |-> FMulInt(Ratio(grouped[j].num, grouped[j].gestantes), Pct)]]]

(***************************************************************************)
(* The tables as objects.  The tables of the caller come first; a table    *)
(* made during a call is appended and named by its position.  An           *)
(* assignment to a table replaces the object a name is bound to.           *)
(***************************************************************************)
Objs(tables) == [objs |-> tables, ret |-> 0]

\* a table that a selection, groupby, merge or concat returns
new_table(h, table) == [objs |-> Append(h.objs, table), ret |-> Len(h.objs) + 1]

\* the copy that shares the object of the original
copy_shared(h, id) == [objs |-> h.objs, ret |-> id]

\* df.copy()
copy(h, id) == new_table(h, h.objs[id])

\* df.columns = ..., df[name] = ..., rename(inplace=True) on the object id
assign(h, id, table) == [objs |-> [h.objs EXCEPT ![id] = table], ret |-> id]

\* clean_column_names of analise_gap_tecnologico.py on the object id
clean_column_names(h, id) ==
  LET df_clean == copy(h, id)
  IN assign(df_clean, df_clean.ret, clean_column_names_gap(df_clean.objs[df_clean.ret]))

\* the four tables of the caller after create_heatmap_comparison: the
\* names are rebound to the cleaned tables, which receive the column ano;
\* every later assignment is to a table that groupby or merge returned
create_heatmap_comparison_objs(tables) ==
  LET p22 == clean_column_names(Objs(tables), 1)
      p23 == clean_column_names(p22, 2)
      u22 == clean_column_names(p23, 3)
      u23 == clean_column_names(u22, 4)
      a1 == assign(u23, p22.ret, with_ano(u23.objs[p22.ret], Ano2022))
      a2 == assign(a1, p23.ret, with_ano(a1.objs[p23.ret], Ano2023))
      a3 == assign(a2, u22.ret, with_ano(a2.objs[u22.ret], Ano2022))
      a4 == assign(a3, u23.ret, with_ano(a3.objs[u23.ret], Ano2023))
  IN SubSeq(a4.objs, 1, 4)

\* the two tables of the caller after generate_graph: each process
\* function assigns cobertura, categoria and the name dsei to the table
\* that groupby returned
generate_graph_objs(df_prenatal, df_ultrassom) ==
  LET processed(h, id, data) ==
        IF data.err # "ok" THEN h
        ELSE LET grouped == new_table(h,
                   [cols |-> <<data.dsei_col, data.gestantes_col, data.num_col>>,
                    rows |-> [j \in 1..Len(data.rows) |->
                               <<data.rows[j].dsei, data.rows[j].gestantes,
                                 data.rows[j].num>>]])
             IN assign(grouped, grouped.ret,
                       [cols |-> <<s_dsei, data.gestantes_col, data.num_col>>,
                        rows |-> data.rows])
      after(prenatal_data, ultrassom_data) ==
        IF prenatal_data.err # "ok" THEN Objs(<<df_prenatal, df_ultrassom>>)
        ELSE processed(processed(Objs(<<df_prenatal, df_ultrassom>>), 1, prenatal_data),
                       2, ultrassom_data)
  IN CHOOSE tables \in {SubSeq(after(prenatal_data, ultrassom_data).objs, 1, 2) :
                          prenatal_data \in {process_prenatal_data(df_prenatal)},
                          ultrassom_data \in {process_ultrassom_data(df_ultrassom)}} : TRUE

\* the two tables of the caller after calcular_cobertura: the columns are
\* renamed and the coverage is assigned on the copy of a selection
calcular_cobertura_objs(df_prenatal, df_ultrassom, ano) ==
  LET result == calcular_cobertura(df_prenatal, df_ultrassom, ano)
      selected(h, id, names) ==
        copy(new_table(h, [cols |-> names,
                           rows |-> [i \in 1..Len(h.objs[id].rows) |->
                                      [k \in 1..3 |->
                                        h.objs[id].rows[i][ColIndex(h.objs[id].cols, names[k])]]]]),
             Len(h.objs) + 1)
      renamed(h, names) ==
        assign(h, h.ret, [cols |-> names, rows |-> h.objs[h.ret].rows])
      h0 == Objs(<<df_prenatal, df_ultrassom>>)
      has(df, names) == \A k \in 1..3 : HasCol(df.cols, names[k])
      names_p == <<s_DSEI_GESTAO, s_N_GESTANTES, s_6_OU_MAIS_CONSULTAS>>
      names_u == <<s_DSEI_GESTAO, s_N_GESTANTES, s_COM_ACESSO>>
      df == IF has(df_prenatal, names_p)
            THEN renamed(selected(h0, 1, names_p), <<s_dsei, s_gestantes, s_6_ou_mais>>)
            ELSE h0
      df_us == IF has(df_prenatal, names_p) /\ has(df_ultrassom, names_u)
                  /\ result.err # "TypeError"
               THEN renamed(selected(df, 2, names_u), <<s_dsei, s_gestantes, s_ultrassons>>)
               ELSE df
  IN SubSeq(df_us.objs, 1, 2)

(***************************************************************************)
(* The state: the four spreadsheets as loaded, and the last function run   *)
(* with what it computed.                                                  *)
(***************************************************************************)
VARIABLES df_prenatal_2022, df_prenatal_2023, df_ultrassom_2022, df_ultrassom_2023, out

vars == <<df_prenatal_2022, df_prenatal_2023, df_ultrassom_2022, df_ultrassom_2023, out>>

inputs == <<df_prenatal_2022, df_prenatal_2023, df_ultrassom_2022, df_ultrassom_2023>>

Anos == {Ano2022, Ano2023}

prenatal_of(ano) == IF ano = Ano2022 THEN df_prenatal_2022 ELSE df_prenatal_2023

ultrassom_of(ano) == IF ano = Ano2022 THEN df_ultrassom_2022 ELSE df_ultrassom_2023

(***************************************************************************)
(* The spreadsheets the model loads.                                       *)
(***************************************************************************)
Districts == {<<"A">>, <<"B">>}

KeyCells == {StrCell(d) : d \in Districts} \cup {NaNCell}

\* the <<numerator, gestantes>> counts of a row
CountPairs == {<<0, 0>>, <<1, 0>>, <<1, 2>>, <<2, 1>>}

DataRows == [dsei : KeyCells, counts : CountPairs]

DataLists == UNION {[1..n -> DataRows] : n \in 0..MaxRows}

PrenatalHeader == <<s_DSEI_GESTAO, s_N_GESTANTES, s_6_OU_MAIS_CONSULTAS>>

UltrassomHeader == <<s_DSEI_GESTAO, s_N_GESTANTES, s_COM_ACESSO>>

\* a file with the given header: district, gestantes, numerator
file_of(header, list) ==
  [cols |-> header,
   rows |-> [i \in 1..Len(list) |->
              <<list[i].dsei, IntCell(list[i].counts[2]), IntCell(list[i].counts[1])>>]]

\* the files that do not vary in a family
Default2022 == <<[dsei |-> StrCell(<<"A">>), counts |-> <<1, 2>>]>>

Default2023 == <<[dsei |-> StrCell(<<"A">>), counts |-> <<2, 1>>]>>

\* headers as they arrive: distinct names, in any order
h_DSEI_Gestao_til == <<"D", "S", "E", "I", "_", "G", "e", "s", "t", "a~", "o">>
h_Dsei_Gestao_sp == <<"D", "s", "e", "i", " ", "G", "e", "s", "t", "a", "o", " ">>
h_Distrito == <<"D", "i", "s", "t", "r", "i", "t", "o">>
h_ge6 == <<">=", "6">>

NamePool ==
  {s_dsei_gestao, h_DSEI_Gestao_til, h_Dsei_Gestao_sp, h_Distrito,
   s_N_GESTANTES, s_6_OU_MAIS_CONSULTAS, s_6_ou_mais, h_ge6, s_COM_ACESSO}

Headers ==
  UNION {{h \in [1..n -> NamePool] : \A i, j \in 1..n : i # j => h[i] # h[j]} :
           n \in 0..MaxCols}

\* one row under a header: a district in the district columns, counts elsewhere
header_file(header) ==
  [cols |-> header,
   rows |-> IF header = <<>> THEN <<>> ELSE
           << [j \in 1..Len(header) |->
                 IF Contains(s_dsei, Lower(header[j])) \/ Contains(s_distrito, Lower(header[j]))
                 THEN StrCell(<<"A">>)
                 ELSE IF Contains(s_gestante, Lower(header[j])) THEN IntCell(2)
                 ELSE IntCell(1)] >>]

\* the 2022 pre-natal file varies
InitPrenatalData ==
  \E list \in DataLists :
    /\ df_prenatal_2022 = file_of(PrenatalHeader, list)
    /\ df_prenatal_2023 = file_of(PrenatalHeader, Default2023)
    /\ df_ultrassom_2022 = file_of(UltrassomHeader, Default2022)
    /\ df_ultrassom_2023 = file_of(UltrassomHeader, Default2023)

\* the 2022 ultrasound file varies
InitUltrassomData ==
  \E list \in DataLists :
    /\ df_prenatal_2022 = file_of(PrenatalHeader, Default2022)
    /\ df_prenatal_2023 = file_of(PrenatalHeader, Default2023)
    /\ df_ultrassom_2022 = file_of(UltrassomHeader, list)
    /\ df_ultrassom_2023 = file_of(UltrassomHeader, Default2023)

\* cells of a count column: a number, a blank, text
BlankOrText == {NaNCell, StrCell(<<"x">>)}

CellRows ==
  [dsei : {StrCell(<<"A">>)},
   gestantes : {IntCell(2)} \cup BlankOrText,
   num : {IntCell(1)} \cup BlankOrText]

CellLists == UNION {[1..n -> CellRows] : n \in 1..MaxRows}

cell_file(header, list) ==
  [cols |-> header,
   rows |-> [i \in 1..Len(list) |-> <<list[i].dsei, list[i].gestantes, list[i].num>>]]

\* the count cells of both 2022 files vary
InitCells ==
  \E list \in CellLists :
    /\ df_prenatal_2022 = cell_file(PrenatalHeader, list)
    /\ df_prenatal_2023 = file_of(PrenatalHeader, Default2023)
    /\ df_ultrassom_2022 = cell_file(UltrassomHeader, list)
    /\ df_ultrassom_2023 = file_of(UltrassomHeader, Default2023)

\* district names as typed: with a trailing or leading space, in lower case
KeyVariants == {<<"A">>, <<"A", " ">>, <<" ", "A">>, <<"a">>}

KeyLists ==
  UNION {[1..n -> [dsei : {StrCell(k) : k \in KeyVariants}, counts : {<<1, 2>>}]] :
           n \in 1..MaxRows}

\* the district names of the 2022 pre-natal file vary
InitKeys ==
  \E list \in KeyLists :
    /\ df_prenatal_2022 = file_of(PrenatalHeader, list)
    /\ df_prenatal_2023 = file_of(PrenatalHeader, Default2023)
    /\ df_ultrassom_2022 = file_of(UltrassomHeader, Default2022)
    /\ df_ultrassom_2023 = file_of(UltrassomHeader, Default2023)

\* counts of two periods: coverage 0 and 0.20 in 2022, 0.30 in 2023
EvolucaoPairs == {<<0, 2>>, <<1, 5>>}

EvolucaoLists ==
  UNION {[1..n -> [dsei : {StrCell(d) : d \in Districts}, counts : EvolucaoPairs]] :
           n \in 1..MaxRows}

Evolucao2023 == <<[dsei |-> StrCell(<<"A">>), counts |-> <<3, 10>>]>>

\* the 2022 pre-natal file varies beside a 2023 file of coverage 0.30
InitEvolucao ==
  \E list \in EvolucaoLists :
    /\ df_prenatal_2022 = file_of(PrenatalHeader, list)
    /\ df_prenatal_2023 = file_of(PrenatalHeader, Evolucao2023)
    /\ df_ultrassom_2022 = file_of(UltrassomHeader, Default2022)
    /\ df_ultrassom_2023 = file_of(UltrassomHeader, Default2023)

\* the header of the files varies
InitHeaders ==
  \E header \in Headers :
    /\ df_prenatal_2022 = header_file(header)
    /\ df_prenatal_2023 = header_file(header)
    /\ df_ultrassom_2022 = header_file(header)
    /\ df_ultrassom_2023 = header_file(header)

\* a file as published, a file of the header alone, a file that cannot be read
FileStates(header, list) ==
  {file_of(header, list), file_of(header, <<>>), Unreadable}

\* files with no rows and files that cannot be read
InitFiles ==
  /\ df_prenatal_2022 \in FileStates(PrenatalHeader, Default2022)
  /\ df_prenatal_2023 \in FileStates(PrenatalHeader, Default2023)
  /\ df_ultrassom_2022 \in FileStates(UltrassomHeader, Default2022)
  /\ df_ultrassom_2023 \in FileStates(UltrassomHeader, Default2023)

\* names of the consultations column typed with a symbol beside whitespace
SymbolNames ==
  {<<">=", " ", "6">>, <<" ", ">=", "6">>, <<">=", "\n", "6">>,
   <<"6", "nbsp", "o", "u", "nbsp", "m", "a", "i", "s">>,
   <<">=", "6">>, <<"6", " ", "O", "U", " ", "M", "A", "I", "S">>}

\* the consultations column of the pre-natal files is named with a symbol
InitSymbols ==
  \E name \in SymbolNames, list \in {Default2022, <<>>} :
    /\ df_prenatal_2022 = file_of(<<s_DSEI_GESTAO, s_N_GESTANTES, name>>, list)
    /\ df_prenatal_2023 = file_of(<<s_DSEI_GESTAO, s_N_GESTANTES, name>>, Default2023)
    /\ df_ultrassom_2022 = file_of(UltrassomHeader, Default2022)
    /\ df_ultrassom_2023 = file_of(UltrassomHeader, Default2023)

\* pre-natal counts of coverage undefined, 0.5 and 1
GapPairs == {<<0, 0>>, <<1, 2>>, <<2, 2>>}

\* one more district than the summary reports, one row each
GapLists ==
  {[k \in 1..(TopGaps + 1) |-> [dsei |-> StrCell(<<UpperAZ[k]>>), counts |-> c[k]]] :
     c \in [1..(TopGaps + 1) -> GapPairs]}

\* the pre-natal counts of 2022 vary beside ultrasound coverages that differ
\* from district to district; the 2023 files have no rows
InitGaps ==
  \E list \in GapLists :
    /\ df_prenatal_2022 = file_of(PrenatalHeader, list)
    /\ df_prenatal_2023 = file_of(PrenatalHeader, <<>>)
    /\ df_ultrassom_2022 =
         file_of(UltrassomHeader,
                 [k \in 1..(TopGaps + 1) |->
                   [dsei |-> StrCell(<<UpperAZ[k]>>), counts |-> <<1, TopGaps + k>>]])
    /\ df_ultrassom_2023 = file_of(UltrassomHeader, <<>>)

\* a ranking: one row per district, district k with coverage k / (2 * NDistricts)
RankRow(k) == [dsei |-> StrCell(<<UpperAZ[k]>>), counts |-> <<k, 2 * NDistricts>>]

\* the rows in the order of the sheet, which starts at any district
RankList(r) == [i \in 1..NDistricts |-> RankRow(((i + r - 1) % NDistricts) + 1)]

\* no further row, or a second row of a district with coverage 0 or 1
RankExtras ==
  {<<>>} \cup {<<[dsei |-> StrCell(<<UpperAZ[k]>>), counts |-> <<c, 2 * NDistricts>>]>> :
                 k \in 1..NDistricts, c \in {0, 2 * NDistricts}}

\* ultrasound files of at least 2 * TopN districts
InitRanking ==
  \E r \in 0..(NDistricts - 1), extra \in RankExtras :
    /\ out = [op |-> "none"]
    /\ df_prenatal_2022 = file_of(PrenatalHeader, Default2022)
    /\ df_prenatal_2023 = file_of(PrenatalHeader, Default2023)
    /\ df_ultrassom_2022 = file_of(UltrassomHeader, RankList(r) \o extra)
    /\ df_ultrassom_2023 = file_of(UltrassomHeader, RankList(r) \o extra)

Init ==
  /\ out = [op |-> "none"]
  /\ \/ InitPrenatalData
     \/ InitUltrassomData
     \/ InitCells
     \/ InitKeys
     \/ InitEvolucao
     \/ InitHeaders
     \/ InitFiles
     \/ InitSymbols
     \/ InitGaps

(***************************************************************************)
(* The functions of the scripts, one action each.                          *)
(***************************************************************************)
\* A behaviour observes one call.  A function that receives loaded tables
\* is called when the script has loaded them, and leaves them to the caller
\* as its assignments left them.
Idle == out.op = "none"

\* the script read its four files
Loaded == \A i \in 1..4 : IsReadable(inputs[i])

\* carregar_dados_prenatal returned a table
LoadedPrenatal == IsReadable(df_prenatal_2022) /\ IsReadable(df_prenatal_2023)

GenerateGraph ==
  \E ano \in Anos :
    /\ Idle
    /\ Loaded
    /\ out' \in generate_graph(prenatal_of(ano), ultrassom_of(ano), ano)
    /\ LET after == generate_graph_objs(prenatal_of(ano), ultrassom_of(ano))
       IN IF ano = Ano2022
          THEN /\ df_prenatal_2022' = after[1]
               /\ df_ultrassom_2022' = after[2]
               /\ UNCHANGED <<df_prenatal_2023, df_ultrassom_2023>>
          ELSE /\ df_prenatal_2023' = after[1]
               /\ df_ultrassom_2023' = after[2]
               /\ UNCHANGED <<df_prenatal_2022, df_ultrassom_2022>>

PlotCoberturaPrenatal ==
  \E ano \in Anos, tipo \in {"top", "bottom", "outro"} :
    /\ Idle
    /\ LoadedPrenatal
    /\ \E salvar \in BOOLEAN :
         out' \in {plotted(r, salvar) :
                     r \in plot_cobertura_prenatal(
                            carregar_dados_prenatal(df_prenatal_2022, df_prenatal_2023),
                            ano, tipo)}
    /\ UNCHANGED inputs

PlotComparativoCobertura ==
  \E tipo \in {"top", "bottom", "outro"}, salvar \in BOOLEAN :
    /\ Idle
    /\ LoadedPrenatal
    /\ out' \in {plotted(r, salvar) :
                  r \in plot_comparativo_cobertura(
                         carregar_dados_prenatal(df_prenatal_2022, df_prenatal_2023), tipo)}
    /\ UNCHANGED inputs

CreateHeatmapComparison ==
  /\ Idle
  /\ Loaded
  /\ out' \in create_heatmap_comparison(df_prenatal_2022, df_prenatal_2023,
                                        df_ultrassom_2022, df_ultrassom_2023)
  /\ LET after == create_heatmap_comparison_objs(inputs)
     IN /\ df_prenatal_2022' = after[1]
        /\ df_prenatal_2023' = after[2]
        /\ df_ultrassom_2022' = after[3]
        /\ df_ultrassom_2023' = after[4]

UltrassomCoverageAnalysis ==
  /\ Idle
  /\ out' \in ultrassom_coverage_analysis(df_ultrassom_2022)
  /\ UNCHANGED inputs

UltrassomCoverageAnalysis2023 ==
  /\ Idle
  /\ out' \in ultrassom_coverage_analysis_2023(df_ultrassom_2023)
  /\ UNCHANGED inputs

UltrassomCoverageCombined ==
  /\ Idle
  /\ out' \in ultrassom_coverage_combined_2022_2023(df_ultrassom_2022, df_ultrassom_2023)
  /\ UNCHANGED inputs

CalcularCobertura ==
  \E ano \in Anos :
    /\ Idle
    /\ Loaded
    /\ out' = calcular_cobertura(prenatal_of(ano), ultrassom_of(ano), ano)
    /\ LET after == calcular_cobertura_objs(prenatal_of(ano), ultrassom_of(ano), ano)
       IN IF ano = Ano2022
          THEN /\ df_prenatal_2022' = after[1]
               /\ df_ultrassom_2022' = after[2]
               /\ UNCHANGED <<df_prenatal_2023, df_ultrassom_2023>>
          ELSE /\ df_prenatal_2023' = after[1]
               /\ df_ultrassom_2023' = after[2]
               /\ UNCHANGED <<df_prenatal_2022, df_ultrassom_2022>>

CompararEvolucaoCobertura ==
  /\ Idle
  /\ LoadedPrenatal
  /\ out' \in comparar_evolucao_cobertura(
                 carregar_dados_prenatal(df_prenatal_2022, df_prenatal_2023))
  /\ UNCHANGED inputs

PrenatalGrouped ==
  /\ Idle
  /\ LoadedPrenatal
  /\ out' = prenatal_grouped(df_prenatal_2022, df_prenatal_2023)
  /\ UNCHANGED inputs

\* the call of clean_column_names at the head of create_heatmap_comparison
CleanColumnNames ==
  /\ Idle
  /\ Loaded
  /\ LET h == clean_column_names(Objs(<<df_prenatal_2022>>), 1)
     IN /\ out' = [op |-> "clean_column_names", err |-> "ok", df_clean |-> h.objs[h.ret]]
        /\ df_prenatal_2022' = h.objs[1]
  /\ UNCHANGED <<df_prenatal_2023, df_ultrassom_2022, df_ultrassom_2023>>

\* carregar_dados_prenatal: the two tables with their year, concatenated
\* and cleaned, or None when a file cannot be read
CarregarDadosPrenatal ==
  /\ Idle
  /\ out' = [op |-> "carregar_dados_prenatal", err |-> "ok",
             df_prenatal |-> IF LoadedPrenatal
                             THEN carregar_dados_prenatal(df_prenatal_2022, df_prenatal_2023)
                             ELSE NoTable]
  /\ UNCHANGED inputs

VisualizarTodosGraficos ==
  /\ Idle
  /\ out' = visualizar_todos_graficos(df_prenatal_2022, df_prenatal_2023)
  /\ UNCHANGED inputs

AnalisarGapTecnologico ==
  /\ Idle
  /\ out' \in analisar_gap_tecnologico(df_prenatal_2022, df_prenatal_2023,
                                       df_ultrassom_2022, df_ultrassom_2023)
  /\ UNCHANGED inputs

UltrassonsMain ==
  /\ Idle
  /\ out' \in ultrassons_main(df_ultrassom_2022, df_ultrassom_2023)
  /\ UNCHANGED inputs

Next ==
  \/ GenerateGraph
  \/ PlotCoberturaPrenatal
  \/ PlotComparativoCobertura
  \/ CompararEvolucaoCobertura
  \/ CreateHeatmapComparison
  \/ UltrassomCoverageAnalysis
  \/ UltrassomCoverageAnalysis2023
  \/ UltrassomCoverageCombined
  \/ CalcularCobertura
  \/ PrenatalGrouped
  \/ AnalisarGapTecnologico
  \/ UltrassonsMain
  \/ CleanColumnNames
  \/ CarregarDadosPrenatal
  \/ VisualizarTodosGraficos

Spec == Init /\ [][Next]_vars

\* the analyses of ultrassons.py on files of many districts
NextRanking ==
  \/ UltrassomCoverageAnalysis
  \/ UltrassomCoverageAnalysis2023
  \/ UltrassomCoverageCombined

SpecRanking == InitRanking /\ [][NextRanking]_vars

(***************************************************************************)
(* The properties.  Those about counts are stated on the files that carry  *)
(* the headers of the published spreadsheets: district, gestantes and the  *)
(* numerator in that order.                                                *)
(***************************************************************************)
CanonicalInputs ==
  /\ Loaded
  /\ df_prenatal_2022.cols = PrenatalHeader
  /\ df_prenatal_2023.cols = PrenatalHeader
  /\ df_ultrassom_2022.cols = UltrassomHeader
  /\ df_ultrassom_2023.cols = UltrassomHeader

Ran(op) == out.op = op /\ out.err = "ok"

Indices(seq) == 1..Len(seq)

\* the rows of the files, in file order
AllRows(files) == IF Len(files) = 1 THEN files[1].rows ELSE files[1].rows \o files[2].rows

\* the rows of one district
RowsOfKey(files, key) == SelectSeq(AllRows(files), LAMBDA r : r[1] = StrCell(key))

\* the rows that name a district
RowsWithKey(files) == SelectSeq(AllRows(files), LAMBDA r : ~IsNull(r[1]))

\* the sum of column c over rows
ColSum(rows, c) == SumCells([i \in 1..Len(rows) |-> rows[i][c]])

\* the sum of a field over the rows of a result
RECURSIVE FieldSum(_, _)
FieldSum(rows, f) == IF rows = <<>> THEN 0 ELSE Head(rows)[f] + FieldSum(Tail(rows), f)

\* ratio of sums: the district's summed numerator over its summed gestantes
RatioOfSums(files, key) ==
  Ratio(ColSum(RowsOfKey(files, key), 3), ColSum(RowsOfKey(files, key), 2))

Prenatal(ano) == <<prenatal_of(ano)>>
Ultrassom(ano) == <<ultrassom_of(ano)>>
PrenatalBoth == <<df_prenatal_2022, df_prenatal_2023>>
UltrassomBoth == <<df_ultrassom_2022, df_ultrassom_2023>>

\* every grouped frame a run produced, with the files it was grouped from
GroupedFrames ==
  IF ~CanonicalInputs \/ out.op = "none" \/ out.err # "ok" THEN {}
  ELSE CASE out.op = "generate_graph" ->
              {<<out.prenatal_data.rows, Prenatal(out.ano)>>,
               <<out.ultrassom_data.rows, Ultrassom(out.ano)>>}
         [] out.op = "plot_cobertura_prenatal" -> {<<out.grouped, Prenatal(out.ano)>>}
         [] out.op = "create_heatmap_comparison" ->
              {<<out.prenatal_grouped, PrenatalBoth>>, <<out.ultrassom_grouped, UltrassomBoth>>}
         [] out.op = "prenatal_grouped" -> {<<out.grouped, PrenatalBoth>>}
         [] OTHER -> {}

\* C1: the coverage of a group is its summed numerator over its summed
\* denominator (times 100 where the script reports percent), in every script
\* that reports a per-district coverage, the 2022+2023 ones included; never
\* a mean of ratios.  Stated for the groups whose summed denominator is not 0.
C1_RatioOfSums ==
  /\ \A g \in GroupedFrames :
       \A j \in Indices(g[1]) :
         (g[1][j].gestantes # 0 =>
            g[1][j].cobertura =
              IF out.op = "prenatal_grouped"
              THEN FMulInt(RatioOfSums(g[2], g[1][j].dsei), Pct)
              ELSE RatioOfSums(g[2], g[1][j].dsei))
  /\ (CanonicalInputs /\ Ran("ultrassom_coverage_combined_2022_2023") =>
       \A j \in Indices(out.df_avg) :
         (ColSum(RowsOfKey(UltrassomBoth, out.df_avg[j].dsei), 2) # 0 =>
            out.df_avg[j].cobertura_percentual =
              FMulInt(RatioOfSums(UltrassomBoth, out.df_avg[j].dsei), Pct)))
  /\ (CanonicalInputs /\ Ran("calcular_cobertura") =>
       \A j \in Indices(out.df_merged) :
         LET rows == SelectSeq(prenatal_of(out.ano).rows,
                               LAMBDA r : r[1] = out.df_merged[j].DSEI)
         IN ColSum(rows, 2) # 0 =>
              out.df_merged[j].cobertura_prenatal =
                FMulInt(Ratio(ColSum(rows, 3), ColSum(rows, 2)), Pct))

\* C2: a group whose summed denominator is 0 has the undefined value (NaN)
\* as its coverage: not the number 0 and not an infinity.
C2_ZeroDenominatorUndefined ==
  \A g \in GroupedFrames :
    \A j \in Indices(g[1]) : g[1][j].gestantes = 0 => IsNaN(g[1][j].cobertura)

\* the top/bottom selections a run made, each with the frame it selected from
Selections ==
  IF ~CanonicalInputs \/ out.op = "none" \/ out.err # "ok" THEN {}
  ELSE CASE out.op = "generate_graph" ->
              {[sel |-> out.top5_prenatal, from |-> out.prenatal_data.rows, asc |-> FALSE],
               [sel |-> out.top5_ultrassom, from |-> out.ultrassom_data.rows, asc |-> FALSE]}
         [] out.op = "plot_cobertura_prenatal" ->
              {[sel |-> out.df_final, from |-> out.grouped, asc |-> out.tipo = "bottom"]}
         [] OTHER -> {}

\* C3: a group of undefined coverage (summed denominator 0) is in no top-N
\* or bottom-N selection.
C3_UndefinedNeverSelected ==
  \A s \in Selections : \A i \in Indices(s.sel) : s.sel[i].gestantes # 0

\* C4: wherever the two coverage series are joined the join is inner on the
\* district: one row for each district present in both, none for a district
\* present in one only; gap = coverage_a - coverage_b.
C4_InnerJoin ==
  /\ CanonicalInputs /\ Ran("create_heatmap_comparison") =>
       /\ {out.df[j].dsei : j \in Indices(out.df)} =
            {out.prenatal_grouped[j].dsei : j \in Indices(out.prenatal_grouped)}
              \cap {out.ultrassom_grouped[j].dsei : j \in Indices(out.ultrassom_grouped)}
       /\ \A i, j \in Indices(out.df) : i # j => out.df[i].dsei # out.df[j].dsei
       /\ \A j \in Indices(out.df) :
            out.df[j].gap = FSub(out.df[j].cobertura_prenatal, out.df[j].cobertura_ultrassom)
  /\ CanonicalInputs /\ Ran("calcular_cobertura") =>
       /\ {out.df_merged[j].DSEI : j \in Indices(out.df_merged)} =
            {prenatal_of(out.ano).rows[i][1] : i \in Indices(prenatal_of(out.ano).rows)}
              \cap {ultrassom_of(out.ano).rows[i][1] : i \in Indices(ultrassom_of(out.ano).rows)}
       /\ \A i, j \in Indices(out.df_merged) :
            i # j => out.df_merged[i].DSEI # out.df_merged[j].DSEI

\* the position of a selected row in the frame it was selected from
PosIn(from, row) == CHOOSE k \in Indices(from) : from[k].dsei = row.dsei

Min(a, b) == IF a < b THEN a ELSE b

\* C5: a selection has min(N, groups of defined coverage) rows, which are
\* the groups of greatest (least) coverage in non-increasing (non-decreasing)
\* order, groups of equal coverage in their original order.
C5_TopNSelection ==
  \A s \in Selections :
    LET defined == {k \in Indices(s.from) : s.from[k].gestantes # 0}
        before(a, b) == IF s.asc THEN FLt(a, b) ELSE FLt(b, a)
    IN /\ Len(s.sel) = Min(TopN, Cardinality(defined))
       /\ \A i, j \in Indices(s.sel) :
            i < j =>
              /\ ~before(s.sel[j].cobertura, s.sel[i].cobertura)
              /\ (s.sel[i].cobertura = s.sel[j].cobertura =>
                   PosIn(s.from, s.sel[i]) < PosIn(s.from, s.sel[j]))
       /\ \A k \in defined :
            (\A i \in Indices(s.sel) : s.sel[i].dsei # s.from[k].dsei) =>
              \A i \in Indices(s.sel) : ~before(s.from[k].cobertura, s.sel[i].cobertura)

\* one output row per distinct group value
OneRowPerGroup(grouped, rows) ==
  /\ \A i, j \in Indices(grouped) : i # j => grouped[i].dsei # grouped[j].dsei
  /\ {StrCell(grouped[j].dsei) : j \in Indices(grouped)} =
       {rows[i][1] : i \in Indices(rows)} \ {NaNCell}

\* C6 as stated: one output row per distinct group value, and each value
\* column sums over the grouped output to its sum over all rows of the input.
C6_ConservationAllRows ==
  \A g \in GroupedFrames :
    /\ OneRowPerGroup(g[1], AllRows(g[2]))
    /\ FieldSum(g[1], "gestantes") = ColSum(AllRows(g[2]), 2)
    /\ FieldSum(g[1], "num") = ColSum(AllRows(g[2]), 3)

\* C6 amended: one output row per distinct non-missing group value, and each
\* value column sums over the grouped output to its sum over the input rows
\* whose group key is not missing.
C6_ConservationKeyedRows ==
  \A g \in GroupedFrames :
    /\ OneRowPerGroup(g[1], AllRows(g[2]))
    /\ FieldSum(g[1], "gestantes") = ColSum(RowsWithKey(g[2]), 2)
    /\ FieldSum(g[1], "num") = ColSum(RowsWithKey(g[2]), 3)

\* a run grouped two rows of one district into one, beside a row with no
\* district that carries counts
C6_GroupedBesideUnkeyedRow ==
  /\ CanonicalInputs
  /\ Ran("create_heatmap_comparison")
  /\ \E j \in Indices(out.prenatal_grouped) :
       Len(RowsOfKey(PrenatalBoth, out.prenatal_grouped[j].dsei)) > 1
  /\ \E i \in Indices(AllRows(PrenatalBoth)) :
       /\ IsNull(AllRows(PrenatalBoth)[i][1])
       /\ CellNum(AllRows(PrenatalBoth)[i][2]) > 0

\* pattern p is contained in column c, compared case-insensitively
Matches(p, c) == Contains(Lower(p), Lower(c))

\* r is the first column, in column order, that contains the first
\* candidate, in list order, that any column contains
ResolvesTo(cols, patterns, r) ==
  IF \E i \in Indices(patterns), j \in Indices(cols) : Matches(patterns[i], cols[j])
  THEN \E i \in Indices(patterns), j \in Indices(cols) :
         /\ r = cols[j]
         /\ Matches(patterns[i], cols[j])
         /\ \A j2 \in 1..(j - 1) : ~Matches(patterns[i], cols[j2])
         /\ \A i2 \in 1..(i - 1), j2 \in Indices(cols) : ~Matches(patterns[i2], cols[j2])
  ELSE r = None

\* C7: find_column returns, for the first candidate in list order that some
\* column contains (case-insensitively), the first such column in column
\* order; a later candidate counts only when no column contains an earlier one.
C7_FindColumnPriority ==
  out.op = "generate_graph" =>
    /\ ResolvesTo(prenatal_of(out.ano).cols, PatDsei, out.prenatal_data.dsei_col)
    /\ ResolvesTo(prenatal_of(out.ano).cols, PatGestantes, out.prenatal_data.gestantes_col)
    /\ ResolvesTo(prenatal_of(out.ano).cols, PatConsultas, out.prenatal_data.num_col)
    /\ out.ultrassom_data # NotRun =>
         /\ ResolvesTo(ultrassom_of(out.ano).cols, PatDsei, out.ultrassom_data.dsei_col)
         /\ ResolvesTo(ultrassom_of(out.ano).cols, PatGestantes, out.ultrassom_data.gestantes_col)
         /\ ResolvesTo(ultrassom_of(out.ano).cols, PatUltrassom, out.ultrassom_data.num_col)

\* the column found for the consultations is not the first column that
\* contains a candidate: an earlier column contains a later candidate
C7_LaterColumnWins ==
  /\ out.op = "generate_graph"
  /\ out.prenatal_data.num_col # None
  /\ \E j \in Indices(prenatal_of(out.ano).cols) :
       /\ j < ColIndex(prenatal_of(out.ano).cols, out.prenatal_data.num_col)
       /\ \E i \in Indices(PatConsultas) : Matches(PatConsultas[i], prenatal_of(out.ano).cols[j])

\* C8: when no column matches a required field the run ends at resolution
\* with a MissingColumnError, not with a None column and an unrelated error.
C8_MissingColumnError ==
  /\ (out.op = "generate_graph"
        /\ (\/ out.prenatal_data.dsei_col = None
            \/ out.prenatal_data.gestantes_col = None
            \/ out.prenatal_data.num_col = None)
      => out.err = "MissingColumnError")
  /\ (out.op = "create_heatmap_comparison"
        /\ (\/ out.dsei_col = None \/ out.gestantes_col = None \/ out.num_col = None)
      => out.err = "MissingColumnError")

\* C9: one column at most is bound to a field; the renaming of the 2023
\* analysis leaves no two columns both named dsei, gestantes or ultrassons.
C9_OneColumnPerField ==
  out.op = "ultrassom_coverage_analysis_2023" =>
    /\ ~Duplicated(out.cols, s_dsei)
    /\ ~Duplicated(out.cols, s_gestantes)
    /\ ~Duplicated(out.cols, s_ultrassons)

\* the header variants of the district column
DseiVariants == {h_DSEI_Gestao_til, s_dsei_gestao, h_Dsei_Gestao_sp}

\* C10: both clean_column_names give the header variants that differ in
\* case, diacritics, space or underscore and surrounding whitespace the one
\* name dsei_gestao.
C10_VariantsNormalizeAlike ==
  /\ out.op = "create_heatmap_comparison" =>
       \A j \in Indices(df_prenatal_2022.cols) :
         df_prenatal_2022.cols[j] \in DseiVariants => out.cols_prenatal[j] = s_dsei_gestao
  /\ out.op = "plot_cobertura_prenatal" =>
       \A j \in Indices(df_prenatal_2022.cols) :
         df_prenatal_2022.cols[j] \in DseiVariants => out.cols[j] = s_dsei_gestao

\* the calls that sum the count columns by district
SummingOps ==
  {"generate_graph", "plot_cobertura_prenatal", "create_heatmap_comparison", "prenatal_grouped"}

\* C11: a blank or non-numeric cell of a summed column adds 0 to its group's
\* sum and fails no call, and the other count of its row is still summed:
\* every sum is the sum of the numeric cells of the district's rows.
C11_BlankCellsCountZero ==
  CanonicalInputs /\ out.op \in SummingOps =>
    /\ out.err = "ok" \/ (out.op = "plot_cobertura_prenatal" /\ out.tipo \notin {"top", "bottom"})
    /\ \A g \in GroupedFrames :
         \A j \in Indices(g[1]) :
           /\ g[1][j].gestantes = ColSum(RowsOfKey(g[2], g[1][j].dsei), 2)
           /\ g[1][j].num = ColSum(RowsOfKey(g[2], g[1][j].dsei), 3)

\* the district names of the rows of the files that name one
KeysOf(files) == {RowsWithKey(files)[i][1].s : i \in Indices(RowsWithKey(files))}

\* C12: district keys are trimmed of surrounding whitespace before grouping
\* and joining, and not case-folded: the groups are the distinct trimmed
\* keys of the input, so keys that differ in surrounding whitespace share a
\* group and keys that differ in letter case do not.
C12_KeysTrimmedNotFolded ==
  /\ \A g \in GroupedFrames :
       /\ {g[1][j].dsei : j \in Indices(g[1])} = {Strip(k) : k \in KeysOf(g[2])}
       /\ \A i, j \in Indices(g[1]) : i # j => g[1][i].dsei # g[1][j].dsei
  /\ CanonicalInputs /\ Ran("create_heatmap_comparison") =>
       {out.df[j].dsei : j \in Indices(out.df)} =
         {Strip(k) : k \in KeysOf(PrenatalBoth)} \cap {Strip(k) : k \in KeysOf(UltrassomBoth)}

\* the distinct district names of rows in the order of their first occurrence
RECURSIVE FirstOccurrences(_)
FirstOccurrences(rows) ==
  IF rows = <<>> THEN <<>>
  ELSE LET before == FirstOccurrences(SubSeq(rows, 1, Len(rows) - 1))
           k == rows[Len(rows)][1].s
       IN IF \E i \in Indices(before) : before[i] = k THEN before ELSE Append(before, k)

\* C13: the rows of a grouped frame are in the order in which each distinct
\* key first occurs in the input, not in sorted-key order.
C13_FirstOccurrenceOrder ==
  \A g \in GroupedFrames :
    [j \in Indices(g[1]) |-> g[1][j].dsei] = FirstOccurrences(RowsWithKey(g[2]))

\* C14: a row with a missing district is left out of every aggregation: it
\* makes no group, and a group's sums are those of the rows that name it;
\* the per-row analyses of ultrassons.py keep no such row either.
C14_UnkeyedRowsExcluded ==
  /\ \A g \in GroupedFrames :
       /\ Len(g[1]) = Cardinality(KeysOf(g[2]))
       /\ \A j \in Indices(g[1]) :
            /\ g[1][j].dsei \in KeysOf(g[2])
            /\ g[1][j].gestantes = ColSum(RowsOfKey(g[2], g[1][j].dsei), 2)
            /\ g[1][j].num = ColSum(RowsOfKey(g[2], g[1][j].dsei), 3)
  /\ CanonicalInputs /\ Ran("ultrassom_coverage_analysis") =>
       /\ Len(out.rows) <= Len(RowsWithKey(Ultrassom(Ano2022)))
       /\ \A j \in Indices(out.rows) : out.rows[j].dsei \in KeysOf(Ultrassom(Ano2022))
  /\ CanonicalInputs /\ Ran("ultrassom_coverage_combined_2022_2023") =>
       /\ Len(out.df_combined) <= Len(RowsWithKey(UltrassomBoth))
       /\ \A j \in Indices(out.df_avg) : out.df_avg[j].dsei \in KeysOf(UltrassomBoth)

\* a grouping ran on a table that holds, beside a row that names a district,
\* a row that names none and carries counts
C14_UnkeyedRowWithCounts ==
  /\ CanonicalInputs
  /\ Ran("generate_graph")
  /\ out.prenatal_data.rows # <<>>
  /\ \E i \in Indices(prenatal_of(out.ano).rows) :
       /\ IsNull(prenatal_of(out.ano).rows[i][1])
       /\ CellNum(prenatal_of(out.ano).rows[i][3]) > 0

\* a row whose numerator exceeds its denominator
Exceeds(r) == r.num > r.gestantes /\ r.gestantes > 0

\* c is scale * num / den exactly, which is above scale
Unclipped(c, r, scale) ==
  /\ c.d > 0
  /\ c.n * r.gestantes = scale * r.num * c.d
  /\ c.n > scale * c.d

\* C15: coverage is never clamped: where the summed numerator exceeds the
\* summed denominator, every table a script computes, up to the one handed
\* to the plot, carries the quotient itself, above 1 (above 100 in percent).
C15_NoClamping ==
  /\ \A g \in GroupedFrames :
       \A j \in Indices(g[1]) :
         Exceeds(g[1][j]) =>
           Unclipped(g[1][j].cobertura, g[1][j], IF out.op = "prenatal_grouped" THEN Pct ELSE 1)
  /\ \A s \in Selections :
       \A i \in Indices(s.sel) : Exceeds(s.sel[i]) => Unclipped(s.sel[i].cobertura, s.sel[i], 1)
  /\ (CanonicalInputs /\ Ran("create_heatmap_comparison") =>
       /\ \A j \in Indices(out.df) :
            /\ \E k \in Indices(out.prenatal_grouped) :
                 /\ out.prenatal_grouped[k].dsei = out.df[j].dsei
                 /\ out.prenatal_grouped[k].cobertura = out.df[j].cobertura_prenatal
            /\ \E k \in Indices(out.ultrassom_grouped) :
                 /\ out.ultrassom_grouped[k].dsei = out.df[j].dsei
                 /\ out.ultrassom_grouped[k].cobertura = out.df[j].cobertura_ultrassom
       /\ {out.df_sorted[j] : j \in Indices(out.df_sorted)} = {out.df[j] : j \in Indices(out.df)})
  /\ ((CanonicalInputs
        /\ out.op \in {"ultrassom_coverage_analysis", "ultrassom_coverage_analysis_2023"}
        /\ out.err = "ok") =>
       \A r \in {out.rows[j] : j \in Indices(out.rows)}
                  \cup {[f \in DOMAIN out.rows[1] |-> out.final_df[j][f]] : j \in Indices(out.final_df)} :
         Exceeds(r) =>
           /\ Unclipped(r.cobertura, r, 1)
           /\ Unclipped(r.cobertura_percentual, r, Pct))

\* an analysis handed a coverage above 100 % to its plot
C15_CoverageAboveOne ==
  /\ CanonicalInputs
  /\ Ran("ultrassom_coverage_analysis")
  /\ \E j \in Indices(out.final_df) :
       /\ out.final_df[j].num > out.final_df[j].gestantes
       /\ out.final_df[j].cobertura_percentual.n > Pct * out.final_df[j].cobertura_percentual.d

\* the coverage of a district in one period: its ratio of sums
PeriodCoverage(ano, key) == RatioOfSums(Prenatal(ano), key)

\* C16: for a district with a coverage in both periods the change is
\* (later - earlier) / earlier as a fraction: 0.20 to 0.30 is 0.50.
C16_RelativeChangeFraction ==
  CanonicalInputs /\ Ran("comparar_evolucao_cobertura") =>
    \A j \in Indices(out.pivot_df) :
      LET earlier == PeriodCoverage(Ano2022, out.pivot_df[j].dsei)
          later == PeriodCoverage(Ano2023, out.pivot_df[j].dsei)
      IN IsFinite(earlier) /\ earlier.n # 0 /\ IsFinite(later) =>
           out.pivot_df[j].variacao = FDiv(FSub(later, earlier), earlier)

\* C17: when a district's earlier coverage is zero or undefined its change
\* is the undefined value, never an infinity or another number, and the
\* district is not among the largest increases.
C17_ChangeUndefinedFromZero ==
  CanonicalInputs /\ Ran("comparar_evolucao_cobertura") =>
    \A key \in KeysOf(Prenatal(Ano2022)) \cap KeysOf(Prenatal(Ano2023)) :
      LET earlier == PeriodCoverage(Ano2022, key)
      IN earlier.d = 0 \/ earlier.n = 0 =>
           /\ \A j \in Indices(out.pivot_df) :
                out.pivot_df[j].dsei = key => IsNaN(out.pivot_df[j].variacao)
           /\ \A j \in Indices(out.top_10_dseis) : out.top_10_dseis[j].dsei # key

\* C18: a file that cannot be loaded does not stop the others: every file
\* is attempted, only the file that failed is reported as missing, and an
\* analysis whose own file loaded still runs.
C18_FailurePerSource ==
  /\ Ran("analisar_gap_tecnologico") =>
        /\ out.carregados.lidos = 4
        /\ \A i \in 1..4 :
             IsReadable(inputs[i]) => out.carregados.tabelas[i] = inputs[i]
  /\ Ran("ultrassons_main") =>
        /\ IsReadable(df_ultrassom_2022) =>
             out.analysis_2022.raised # "FileNotFoundError"
        /\ IsReadable(df_ultrassom_2023) =>
             out.analysis_2023.raised # "FileNotFoundError"
        /\ IsReadable(df_ultrassom_2022) /\ IsReadable(df_ultrassom_2023) =>
             out.combined.raised # "FileNotFoundError"

\* the loaded tables that have no rows
EmptyTables == {i \in 1..4 : IsEmpty(inputs[i])}

\* both tables of a series have no rows
SeriesEmpty ==
  \/ IsEmpty(df_prenatal_2022) /\ IsEmpty(df_prenatal_2023)
  \/ IsEmpty(df_ultrassom_2022) /\ IsEmpty(df_ultrassom_2023)

TableOps == {"generate_graph", "create_heatmap_comparison", "calcular_cobertura"}

\* C20: no function mutates a table it receives: after clean_column_names,
\* create_heatmap_comparison, process_prenatal_data, process_ultrassom_data,
\* generate_graph or calcular_cobertura the caller's tables have the same
\* column names, no added column and the same rows.
C20_InputsNotMutated ==
  [][out'.op \in TableOps => inputs' = inputs]_vars

\* create_heatmap_comparison cleaned the column names and added the year
\* on its own tables: the caller's table keeps its names and has no ano
C20_CleanedBesideOriginal ==
  /\ Ran("create_heatmap_comparison")
  /\ HasCol(out.cols_prenatal, s_ano)
  /\ ~HasCol(df_prenatal_2022.cols, s_ano)
  /\ \E j \in 1..Len(df_prenatal_2022.cols) :
       out.cols_prenatal[j] # df_prenatal_2022.cols[j]

\* the categories under which a district appears in a table
Categories(final_df, dsei) ==
  {final_df[j].categoria : j \in {i \in Indices(final_df) : final_df[i].dsei = dsei}}

\* a ranked table of at least 2 * TopN districts, no two rows of equal value
RankedApart(rows, by) ==
  /\ Cardinality({rows[j].dsei : j \in Indices(rows)}) >= 2 * TopN
  /\ \A i, j \in Indices(rows) : i # j => rows[i][by] # rows[j][by]

\* C21: with at least 10 districts of pairwise distinct coverage, no
\* district appears both under top5 and under bottom5 of the concatenated
\* table.
C21_TopBottomDisjoint ==
  /\ out.op \in {"ultrassom_coverage_analysis", "ultrassom_coverage_analysis_2023"}
       => (out.err = "ok" /\ RankedApart(out.rows, "cobertura")
             => \A j \in Indices(out.final_df) :
                  Cardinality(Categories(out.final_df, out.final_df[j].dsei)) = 1)
  /\ out.op = "ultrassom_coverage_combined_2022_2023"
       => (out.err = "ok" /\ RankedApart(out.df_avg, "cobertura_percentual")
             => \A j \in Indices(out.final_df) :
                  Cardinality(Categories(out.final_df, out.final_df[j].dsei)) = 1)

\* C22: column-name normalization is idempotent: cleaning a cleaned table
\* gives the cleaned table, also for headers with a non-ASCII symbol beside
\* whitespace.
C22_CleanIdempotent ==
  /\ Ran("clean_column_names") =>
       clean_column_names_gap(out.df_clean) = out.df_clean
  /\ Ran("carregar_dados_prenatal") /\ LoadedPrenatal =>
       clean_column_names_graficos(out.df_prenatal) = out.df_prenatal

\* a plotting function was called with a tipo that is neither top nor bottom
OtherTipo ==
  /\ out.op \in {"plot_cobertura_prenatal", "plot_comparativo_cobertura"}
  /\ out.tipo \notin {"top", "bottom"}

\* no count cell of the pre-natal files holds text
NumericCounts ==
  \A f \in 1..2 : \A i \in Indices(PrenatalBoth[f].rows) :
    ~IsText(PrenatalBoth[f].rows[i][2]) /\ ~IsText(PrenatalBoth[f].rows[i][3])

FGe(x, y) == ~IsNaN(x) /\ ~IsNaN(y) /\ ~FLt(x, y)

\* the rows of a table that are not among the reported ones
Unreported(rows, reported) ==
  {j \in Indices(rows) : \A k \in Indices(reported) : reported[k] # rows[j]}

\* C24: the comparison table is in non-increasing order of gap, the
\* districts reported as largest gaps have the greatest gap values and the
\* districts reported as smallest gaps have the least, also when the gap
\* of a district is undefined.
C24_OrderedByGap ==
  Ran("analisar_gap_tecnologico") /\ out.heatmap.op = "create_heatmap_comparison" =>
    LET df_sorted == out.heatmap.df_sorted
    IN /\ \A i, j \in Indices(df_sorted) :
            i < j => FGe(df_sorted[i].gap, df_sorted[j].gap)
       /\ \A k \in Indices(out.top_gaps) :
            \A j \in Unreported(df_sorted, out.top_gaps) :
              FGe(out.top_gaps[k].gap, df_sorted[j].gap)
       /\ \A k \in Indices(out.bottom_gaps) :
            \A j \in Unreported(df_sorted, out.bottom_gaps) :
              FGe(df_sorted[j].gap, out.bottom_gaps[k].gap)

\* the characters outside ASCII
NonAscii == {"a~", "A~", "o^", ">=", "nbsp"}

IsAscii(cols) ==
  \A j \in Indices(cols) : \A k \in Indices(cols[j]) : cols[j][k] \notin NonAscii

\* the column names a function works on after clean_column_names, and
\* the consultations column it resolved
CleanedLookups ==
  CASE out.op = "clean_column_names" ->
         {[cols |-> out.df_clean.cols, num_col |-> None, looked |-> FALSE]}
    [] out.op = "carregar_dados_prenatal" /\ LoadedPrenatal ->
         {[cols |-> out.df_prenatal.cols, num_col |-> None, looked |-> FALSE]}
    [] out.op = "create_heatmap_comparison" ->
         {[cols |-> out.cols_prenatal, num_col |-> out.num_col, looked |-> TRUE]}
    [] out.op = "plot_cobertura_prenatal" ->
         {[cols |-> out.cols, num_col |-> out.num_col, looked |-> TRUE]}
    [] OTHER -> {}

\* C25: every column name clean_column_names produces is ASCII only; on a
\* cleaned table the alternative '>=6' of the consultations lookup never
\* matches, the column is found through '6_ou_mais' alone, and a header
\* that names the field only by the symbol is not resolved.
C25_CleanedNamesAscii ==
  \A c \in CleanedLookups :
    /\ IsAscii(c.cols)
    /\ \A j \in Indices(c.cols) : ~Contains(s_ge6, Lower(c.cols[j]))
    /\ c.looked =>
         /\ c.num_col # None => Contains(s_6_ou_mais, Lower(c.num_col))
         /\ (\A j \in Indices(c.cols) : ~Contains(s_6_ou_mais, Lower(c.cols[j])))
              => c.num_col = None

\* the consultations column is named by the symbol alone and the lookup of
\* create_heatmap_comparison found no column
C25_SymbolHeaderUnresolved ==
  /\ out.op = "create_heatmap_comparison"
  /\ \E j \in Indices(df_prenatal_2022.cols) :
       /\ Contains(s_ge6, df_prenatal_2022.cols[j])
       /\ ~Contains(s_6_ou_mais, Lower(df_prenatal_2022.cols[j]))
  /\ out.dsei_col # None /\ out.gestantes_col # None
  /\ out.num_col = None
  /\ out.err = "IndexError"

\* the summary of the run has a row for 2022 and a row for 2023, the years
\* being the integers assigned at load time
SummaryBothYears ==
  /\ out.op = "visualizar_todos_graficos"
  /\ \E j \in Indices(out.resumo) : out.resumo[j].ano = IntCell(Ano2022)
  /\ \E j \in Indices(out.resumo) : out.resumo[j].ano = IntCell(Ano2023)

\* C26: whenever the summary of visualizar_todos_graficos has a row for 2022
\* and a row for 2023, the run prints the improvement/reduction message with
\* the change in mean coverage before it generates any chart.
C26_ChangeMessageBeforeCharts ==
  SummaryBothYears =>
    \E k \in Indices(out.events) :
      /\ out.events[k].ev = "print"
      /\ out.events[k].msg \in {"melhora", "reducao"}
      /\ \A j \in Indices(out.events) : out.events[j].ev = "chart" => k < j

====
